---- MODULE Spec2Model ----
(***************************************************************************)
(* Streaming response pipeline and resilience layer of the prompt          *)
(* enhancer: the SSE chunk decoder / line parser, the error classifier,    *)
(* the HTTP retry helper fetchWithRetry, and the two client hooks          *)
(* useEnhancePrompt and useApiCall.                                         *)
(*                                                                         *)
(* Text is modelled as a sequence of tokens.  A token is one character     *)
(* ("\n", "\r", " ", ":") or an indivisible run of characters ("da" and    *)
(* "ta: " together are the six characters of the prefix `data: `, "{" is   *)
(* the opening of a frame's JSON object up to the opening quote of         *)
(* choices[0].delta.content, "}" is its closing, "[DONE]" the sentinel).   *)
(* Chunk boundaries fall between tokens, so a frame can be split inside    *)
(* its prefix and inside its JSON object.                                   *)
(***************************************************************************)
EXTENDS Integers, Sequences, FiniteSets, TLC

VARIABLES
  clsIn,   \* the error handed to classifyEnhanceError
  clsOut,  \* its classification, "none" before the call
  rt,      \* one run of fetchWithRetry
  enh,     \* React state of one useEnhancePrompt instance
  view,    \* the state as of the last render: what the callbacks' closures read
  abortControllerRef,  \* abortControllerRef.current: 0 (null) or a controller
  aborted, \* the controllers whose abort() has been called
  cancelled, \* the calls the user's abort() hit before their response arrived
  calls,   \* the calls of enhancePrompt / execute, in the order they started
  body,    \* the body the endpoint streams on a 2xx answer in this run
  budget,  \* how many user actions the run may still make
  api,     \* React state of one useApiCall instance
  apiOpts, \* the options the useApiCall instance was created with
  timers,  \* pending 300 ms reset timers of useApiCall's abort()
  gate,    \* the enhance-prompt edge function: clock, rateLimitMap, last response
  gen      \* React state of one useGenerateComponent instance

classifierVars == <<clsIn, clsOut>>
retryVars == <<rt>>
gateVars == <<gate>>
serverVars == <<retryVars, gateVars>>
apiVars == <<api, apiOpts, timers>>
genVars == <<gen>>
hookVars == <<enh, view, abortControllerRef, aborted, cancelled, calls, body, budget,
              apiVars, genVars>>

(***************************************************************************)
(* Text helpers (String.prototype methods on token sequences)              *)
(***************************************************************************)
NL == "\n"
CR == "\r"
SP == " "

\* s.startsWith(p)
StartsWith(s, p) == Len(s) >= Len(p) /\ SubSeq(s, 1, Len(p)) = p

\* s.endsWith(p)
EndsWith(s, p) == Len(s) >= Len(p) /\ SubSeq(s, Len(s) - Len(p) + 1, Len(s)) = p

\* s.slice(n): drop the first n tokens
Slice(s, n) == SubSeq(s, n + 1, Len(s))

\* white space as String.prototype.trim sees it
IsSpace(t) == t \in {SP, CR, NL}

RECURSIVE TrimLeft(_)
TrimLeft(s) == IF s # <<>> /\ IsSpace(Head(s)) THEN TrimLeft(Tail(s)) ELSE s

RECURSIVE TrimRight(_)
TrimRight(s) ==
  IF s # <<>> /\ IsSpace(s[Len(s)]) THEN TrimRight(SubSeq(s, 1, Len(s) - 1)) ELSE s

\* s.trim()
Trim(s) == TrimRight(TrimLeft(s))

\* s.indexOf(t), 1-based; 0 when t does not occur (JavaScript's -1)
IndexOf(s, t) ==
  IF \E i \in 1..Len(s) : s[i] = t
  THEN CHOOSE i \in 1..Len(s) : s[i] = t /\ \A j \in 1..(i - 1) : s[j] # t
  ELSE 0

\* s.includes(p) for a phrase p (a token sequence)
Includes(s, p) ==
  \E i \in 1..(Len(s) - Len(p) + 1) : SubSeq(s, i, i + Len(p) - 1) = p

\* s.split("\n")
RECURSIVE Split(_)
Split(s) ==
  LET i == IndexOf(s, NL) IN
  IF i = 0 THEN <<s>> ELSE <<SubSeq(s, 1, i - 1)>> \o Split(Slice(s, i))

(***************************************************************************)
(* Error classifier                                                        *)
(***************************************************************************)
\* Words of error messages.  A message is a sequence of words separated by
\* single blanks; "Network" and "Fetch" are the capitalised spellings.
Words == {"network", "Network", "fetch", "Fetch", "too", "long", "Too",
          "content", "length", "slow", "down"}

\* String.prototype.toLowerCase on one word
LowerWord(w) ==
  CASE w = "Network" -> "network"
    [] w = "Fetch" -> "fetch"
    [] w = "Too" -> "too"
    [] OTHER -> w

\* message.toLowerCase()
ToLowerCase(m) == [i \in 1..Len(m) |-> LowerWord(m[i])]

\* HTTP statuses the model sends; NoStatus marks an error that is no ApiError
NoStatus == 0
Statuses == {400, 402, 404, 408, 429, 499, 500, 502, 503, 504}

EnhanceErrorType == {"network", "rate-limit", "payment", "invalid-content",
                     "content-too-long", "timeout", "server-error", "generic",
                     "abort"}

\* classifyEnhanceError(error): error is [name, status, message]; it is an
\* ApiError iff status # NoStatus
classifyEnhanceError_StatusLast(error) ==
  IF error.name = "AbortError" THEN "abort"
  ELSE IF Includes(ToLowerCase(error.message), <<"network">>)
          \/ Includes(ToLowerCase(error.message), <<"fetch">>) THEN "network"
  ELSE IF error.status = 429 THEN "rate-limit"
  ELSE IF error.status = 402 THEN "payment"
  ELSE IF error.status = 400 THEN
    IF Includes(error.message, <<"too", "long">>)
       \/ Includes(error.message, <<"content", "length">>)
    THEN "content-too-long" ELSE "invalid-content"
  ELSE IF error.status = 408 \/ error.status = 504 THEN "timeout"
  ELSE IF error.status # NoStatus /\ error.status >= 500 THEN "server-error"
  ELSE "generic"

classifyEnhanceError(error) ==
  IF error.name = "AbortError" THEN "abort"
  ELSE IF error.status # NoStatus /\ error.status = 429 THEN "rate-limit"
  ELSE IF error.status # NoStatus /\ error.status = 402 THEN "payment"
  ELSE IF error.status # NoStatus /\ error.status = 400 THEN
    IF Includes(error.message, <<"too", "long">>)
       \/ Includes(error.message, <<"content", "length">>)
    THEN "content-too-long" ELSE "invalid-content"
  ELSE IF error.status # NoStatus /\ (error.status = 408 \/ error.status = 504)
    THEN "timeout"
  ELSE IF error.status # NoStatus /\ error.status >= 500 THEN "server-error"
  ELSE IF Includes(ToLowerCase(error.message), <<"network">>)
          \/ Includes(ToLowerCase(error.message), <<"fetch">>) THEN "network"
  ELSE "generic"

MaxWords == 2

\* messages of at most MaxWords words
Messages == UNION {[1..n -> Words] : n \in 0..MaxWords}

ErrorNames == {"AbortError", "Error", "TypeError", "ApiError"}

\* the errors classifyEnhanceError is applied to: an ApiError carries a
\* status and the name "ApiError"; any other Error carries no status
Errors ==
  [name : {"ApiError"}, status : Statuses, message : Messages]
  \cup [name : ErrorNames \ {"ApiError"}, status : {NoStatus}, message : Messages]

NoError == [name |-> "none", status |-> NoStatus, message |-> <<>>]

ClassifierIdle == clsIn = NoError /\ clsOut = "none"

\* one application of classifyEnhanceError to the error drawn by Init
Classify ==
  /\ clsOut = "none"
  /\ clsIn # NoError
  /\ clsOut' = classifyEnhanceError(clsIn)
  /\ UNCHANGED <<clsIn, serverVars, hookVars>>

(***************************************************************************)
(* fetchWithRetry (supabase/functions/enhance-prompt/utils/retry.ts)       *)
(***************************************************************************)
DefaultMaxRetries == 3
DefaultBaseDelay == 1000
DefaultMaxDelay == 10000
DefaultRetryableStatuses == {408, 429, 500, 502, 503, 504}

\* largest maxRetries option the model passes
MaxRetriesOpt == 3

\* what one fetch of the gateway can do: answer with a status, or throw
GatewayStatuses == {200, 400, 402, 404, 429, 503}
\* the log entry of a fetch that rejected with a network error
Throws == -1

\* Math.random() in thousandths, 0 <= r < 1
Randoms == {0, 500, 999}

RECURSIVE Pow2(_)
Pow2(n) == IF n = 0 THEN 1 ELSE 2 * Pow2(n - 1)

Min(a, b) == IF a <= b THEN a ELSE b

\* Math.round(currentDelay + jitter), currentDelay = base * 2^attempt and
\* jitter = currentDelay * 0.2 * (random - 0.5); r is random in thousandths
JitteredDelay(base, attempt, r) ==
  LET currentDelay == base * Pow2(attempt)
  IN (2 * currentDelay * (4500 + r) + 5000) \div 10000

\* the delay fetchWithRetry sleeps before the attempt after `attempt`
RetryDelay(opts, attempt, r) ==
  Min(JitteredDelay(opts.baseDelay, attempt, r), opts.maxDelay)

\* response.ok
Ok(status) == status >= 200 /\ status <= 299

\* the options after { ...DEFAULT_OPTIONS, ...retryOptions }
RetryOptions ==
  [maxRetries : 0..MaxRetriesOpt,
   baseDelay : {DefaultBaseDelay},
   maxDelay : {DefaultMaxDelay},
   retryableStatuses : {DefaultRetryableStatuses, {503}}]

DEFAULT_OPTIONS ==
  [maxRetries |-> DefaultMaxRetries, baseDelay |-> DefaultBaseDelay,
   maxDelay |-> DefaultMaxDelay, retryableStatuses |-> DefaultRetryableStatuses]

RetryIdle ==
  rt = [pc |-> "off", opts |-> DEFAULT_OPTIONS, attempt |-> 0, requests |-> 0,
        log |-> <<>>, sleeps |-> <<>>, result |-> "none"]

\* fetchWithRetry is called: the loop starts at attempt 0 and awaits fetch
RetryCall ==
  /\ rt.pc = "init"
  /\ rt' = IF 0 <= rt.opts.maxRetries
             THEN [rt EXCEPT !.pc = "fetch", !.attempt = 0, !.requests = 1]
             ELSE [rt EXCEPT !.pc = "threw", !.result = "failed-after-all-attempts"]
  /\ UNCHANGED <<classifierVars, gateVars, hookVars>>

\* the loop's `attempt === opts.maxRetries` test
LastAttempt_OffByOne(r) == r.attempt + 1 >= r.opts.maxRetries

LastAttempt(r) == r.attempt = r.opts.maxRetries

\* `response.ok || !opts.retryableStatuses.includes(response.status)`
ReturnsAtOnce(r, status) == Ok(status) \/ status \notin r.opts.retryableStatuses

\* the awaited fetch settles with a response
RetryFetchResponds ==
  /\ rt.pc = "fetch"
  /\ \E status \in GatewayStatuses, r \in Randoms :
       LET logged == [rt EXCEPT !.log = Append(@, status)] IN
       rt' = IF ReturnsAtOnce(rt, status) \/ LastAttempt(rt)
             THEN [logged EXCEPT !.pc = "returned", !.result = status]
             ELSE [logged EXCEPT !.pc = "sleep",
                                 !.sleeps = Append(@, RetryDelay(rt.opts, rt.attempt, r))]
  /\ UNCHANGED <<classifierVars, gateVars, hookVars>>

\* the awaited fetch rejects with a network error
RetryFetchThrows ==
  /\ rt.pc = "fetch"
  /\ \E r \in Randoms :
       LET logged == [rt EXCEPT !.log = Append(@, Throws)] IN
       rt' = IF LastAttempt(rt)
             THEN [logged EXCEPT !.pc = "threw", !.result = Throws]
             ELSE [logged EXCEPT !.pc = "sleep",
                                 !.sleeps = Append(@, RetryDelay(rt.opts, rt.attempt, r))]
  /\ UNCHANGED <<classifierVars, gateVars, hookVars>>

\* the setTimeout of the backoff fires: attempt++ and the next fetch
RetryWake ==
  /\ rt.pc = "sleep"
  /\ rt' = IF rt.attempt + 1 <= rt.opts.maxRetries
             THEN [rt EXCEPT !.pc = "fetch", !.attempt = @ + 1, !.requests = @ + 1]
             ELSE [rt EXCEPT !.pc = "threw", !.attempt = @ + 1,
                             !.result = "failed-after-all-attempts"]
  /\ UNCHANGED <<classifierVars, gateVars, hookVars>>

(***************************************************************************)
(* Chunk decoder and SSE line parser (useEnhancePrompt.ts, lines 119-180)  *)
(***************************************************************************)
\* the six characters `data: `
DataPrefix == <<"da", "ta: ">>
\* the sentinel payload
DoneMark == <<"[DONE]">>
\* pieces of delta text
ContentTokens == {"Hi", " there"}

\* `tokenCount > 10`
StageThreshold == 10

\* JSON.parse(jsonStr) returns and reading choices?.[0]?.delta?.content of it
\* does not throw: a frame object "{" content "}" or an object without choices
IsFrameJson(j) ==
  \/ j = <<"{}">>
  \/ /\ Len(j) >= 2
     /\ j[1] = "{"
     /\ j[Len(j)] = "}"
     /\ \A i \in 2..(Len(j) - 1) : j[i] \in ContentTokens

\* parsed.choices?.[0]?.delta?.content; <<>> is the falsy "" / undefined
DeltaContent(j) == IF j = <<"{}">> THEN <<>> ELSE SubSeq(j, 2, Len(j) - 1)

\* `if (line.endsWith("\r")) line = line.slice(0, -1)`
StripCR(line) ==
  IF EndsWith(line, <<CR>>) THEN SubSeq(line, 1, Len(line) - 1) ELSE line

AppendDelta_Overwrites(st, delta) ==
  [st EXCEPT !.result = delta,
             !.tokenCount = @ + 1,
             !.stage = IF st.tokenCount + 1 > StageThreshold THEN "enhancing" ELSE @,
             !.enhancedPrompt = delta,
             !.progress = Append(@, delta)]

\* `result += deltaContent; tokenCount++; ...; setEnhancedPrompt(result)`
AppendDelta(st, delta) ==
  [st EXCEPT !.result = @ \o delta,
             !.tokenCount = @ + 1,
             !.stage = IF st.tokenCount + 1 > StageThreshold THEN "enhancing" ELSE @,
             !.enhancedPrompt = st.result \o delta,
             !.progress = Append(@, st.result \o delta)]

\* the push-back of a line that failed to parse: `buffer = line + "\n" + buffer`
PushBack(st, line, rest) == [st EXCEPT !.buffer = line \o <<NL>> \o rest]

\* The inner `while ((newlineIndex = buffer.indexOf("\n")) !== -1)` loop.  st
\* holds the call's locals (buffer, result, tokenCount), the session fields the
\* loop sets (stage, enhancedPrompt) and two logs: progress, the values handed
\* to setEnhancedPrompt, and frames, the payloads of the data lines consumed.
RECURSIVE ParseLines(_)
ParseLines_StopsAtNoOp(st) ==
  LET newlineIndex == IndexOf(st.buffer, NL) IN
  IF newlineIndex = 0 THEN st
  ELSE
    LET line == StripCR(SubSeq(st.buffer, 1, newlineIndex - 1))
        rest == Slice(st.buffer, newlineIndex)
        next == [st EXCEPT !.buffer = rest]
        jsonStr == Trim(Slice(line, Len(DataPrefix)))
        taken == [next EXCEPT !.frames = Append(@, jsonStr)]
    IN
    IF StartsWith(line, <<":">>) \/ Trim(line) = <<>> THEN next
    ELSE IF ~StartsWith(line, DataPrefix) THEN next
    ELSE IF jsonStr = DoneMark THEN [taken EXCEPT !.stage = "finalizing"]
    ELSE IF IsFrameJson(jsonStr) THEN
      IF DeltaContent(jsonStr) # <<>>
      THEN ParseLines(AppendDelta(taken, DeltaContent(jsonStr)))
      ELSE ParseLines(taken)
    ELSE PushBack(st, line, rest)

ParseLines(st) ==
  LET newlineIndex == IndexOf(st.buffer, NL) IN
  IF newlineIndex = 0 THEN st
  ELSE
    LET line == StripCR(SubSeq(st.buffer, 1, newlineIndex - 1))
        rest == Slice(st.buffer, newlineIndex)
        next == [st EXCEPT !.buffer = rest]
        jsonStr == Trim(Slice(line, Len(DataPrefix)))
        taken == [next EXCEPT !.frames = Append(@, jsonStr)]
    IN
    IF StartsWith(line, <<":">>) \/ Trim(line) = <<>> THEN ParseLines(next)
    ELSE IF ~StartsWith(line, DataPrefix) THEN ParseLines(next)
    ELSE IF jsonStr = DoneMark THEN [taken EXCEPT !.stage = "finalizing"]
    ELSE IF IsFrameJson(jsonStr) THEN
      IF DeltaContent(jsonStr) # <<>>
      THEN ParseLines(AppendDelta(taken, DeltaContent(jsonStr)))
      ELSE ParseLines(taken)
    ELSE PushBack(st, line, rest)

Feed_DropsHeld(st, chunk) == ParseLines([st EXCEPT !.buffer = chunk])

\* `buffer += decoder.decode(value, { stream: true })` and the inner loop
Feed(st, chunk) == ParseLines([st EXCEPT !.buffer = @ \o chunk])

\* the body of `for (let raw of buffer.split("\n"))` over the lines raws
RECURSIVE FlushLines(_, _)
FlushLines_StopsAtMalformed(raws, st) ==
  IF raws = <<>> THEN st
  ELSE
    LET raw == StripCR(Head(raws))
        jsonStr == Trim(Slice(raw, Len(DataPrefix)))
        taken == [st EXCEPT !.frames = Append(@, jsonStr)]
    IN
    IF Head(raws) = <<>> THEN FlushLines(Tail(raws), st)
    ELSE IF ~StartsWith(raw, DataPrefix) THEN FlushLines(Tail(raws), st)
    ELSE IF jsonStr = DoneMark THEN FlushLines(Tail(raws), taken)
    ELSE IF IsFrameJson(jsonStr) /\ DeltaContent(jsonStr) # <<>> THEN
      FlushLines(Tail(raws),
                 [taken EXCEPT !.result = @ \o DeltaContent(jsonStr),
                               !.enhancedPrompt = st.result \o DeltaContent(jsonStr),
                               !.progress = Append(@, st.result \o DeltaContent(jsonStr))])
    ELSE IF IsFrameJson(jsonStr) THEN FlushLines(Tail(raws), taken)
    ELSE taken

FlushLines(raws, st) ==
  IF raws = <<>> THEN st
  ELSE
    LET raw == StripCR(Head(raws))
        jsonStr == Trim(Slice(raw, Len(DataPrefix)))
        taken == [st EXCEPT !.frames = Append(@, jsonStr)]
    IN
    IF Head(raws) = <<>> THEN FlushLines(Tail(raws), st)
    ELSE IF ~StartsWith(raw, DataPrefix) THEN FlushLines(Tail(raws), st)
    ELSE IF jsonStr = DoneMark THEN FlushLines(Tail(raws), taken)
    ELSE IF IsFrameJson(jsonStr) /\ DeltaContent(jsonStr) # <<>> THEN
      FlushLines(Tail(raws),
                 [taken EXCEPT !.result = @ \o DeltaContent(jsonStr),
                               !.enhancedPrompt = st.result \o DeltaContent(jsonStr),
                               !.progress = Append(@, st.result \o DeltaContent(jsonStr))])
    ELSE FlushLines(Tail(raws), taken)

Flush_SkipsResidual(st) == st

\* "Flush remaining buffer": `if (buffer.trim()) { for ... }`
Flush(st) == IF Trim(st.buffer) = <<>> THEN st ELSE FlushLines(Split(st.buffer), st)

\* the locals of a call when its read loop starts
StreamStart(stage, shown) ==
  [buffer |-> <<>>, result |-> <<>>, tokenCount |-> 0, stage |-> stage,
   enhancedPrompt |-> shown, progress |-> <<>>, frames |-> <<>>]

\* the lines a body is built from
LineTemplates ==
  { DataPrefix \o <<"{", "Hi", "}">>,
    DataPrefix \o <<"{", " there", "}", CR>>,
    DataPrefix \o <<"{", "Hi">>,
    DataPrefix \o <<"{", "}">>,
    DataPrefix \o DoneMark,
    <<":", "Hi">>,
    <<>> }

\* most lines in a body
MaxLines == 3

\* s with "\n" after each line; the last line's "\n" only if terminated
RECURSIVE JoinLines(_, _)
JoinLines(ls, terminated) ==
  IF ls = <<>> THEN <<>>
  ELSE IF Len(ls) = 1 THEN Head(ls) \o (IF terminated THEN <<NL>> ELSE <<>>)
  ELSE Head(ls) \o <<NL>> \o JoinLines(Tail(ls), terminated)

\* the bodies the endpoint may stream
StreamBodies ==
  { JoinLines(ls, t) : ls \in UNION {[1..n -> LineTemplates] : n \in 0..MaxLines},
                       t \in BOOLEAN }

(***************************************************************************)
(* useEnhancePrompt (src/hooks/useEnhancePrompt.ts)                        *)
(***************************************************************************)
\* an optional value: None is null / undefined, Some(x) a value
None == <<>>
Some(x) == <<x>>

\* payloads of enhancePrompt
Contents == {"hello", "", "[Image-based prompt]"}
Modes == {"formal", "creative"}
ImageData == {None, Some(<<"img">>)}

\* `!content.trim()`
IsBlank(content) == content \in {"", " "}

\* `Array.isArray(imageData) && imageData.length > 0`
HasImages(imageData) == imageData # None /\ Len(imageData[1]) > 0

\* `content || "[Image-based prompt]"`
OriginalContent(content) == IF content # "" THEN content ELSE "[Image-based prompt]"

\* the useState initial values
EnhanceInitialState ==
  [enhancedPrompt |-> <<>>, isEnhancing |-> FALSE, lastMode |-> "formal",
   lastFileType |-> None, lastOriginalContent |-> "", lastImageData |-> None,
   loadingStage |-> "connecting", error |-> None, errorType |-> "null",
   retryCount |-> 0,
   noPreviousToasts |-> 0]  \* how often the "no previous prompt" toast was shown

\* what the callbacks created by a render over state e close over
Closure(e) ==
  [isEnhancing |-> e.isEnhancing, lastOriginalContent |-> e.lastOriginalContent,
   lastMode |-> e.lastMode, lastFileType |-> e.lastFileType,
   lastImageData |-> e.lastImageData]

\* error messages the endpoint puts in the `error` field of a failure body
ErrMessages == {<<"slow", "down">>, <<"content", "too", "long">>}

\* what `await resp.json()` of a failure body gives: None when the body has no
\* `error` field or is not JSON, Some(message) otherwise; the message of
\* {"error": ""} is the empty string
ErrorBodies == {None} \cup {Some(m) : m \in ErrMessages \cup {<<>>}}

\* statuses of a failure answer
FailureStatuses == {400, 429, 500}

\* `Request failed: ${resp.status}`
RequestFailed(status) == <<"Request", "failed:", ToString(status)>>

ErrorMessage_IgnoresBody(errorData, status) == RequestFailed(status)

\* `errorData.error || \`Request failed: ${resp.status}\``
ErrorMessage(errorData, status) ==
  IF errorData # None /\ errorData[1] # <<>> THEN errorData[1] ELSE RequestFailed(status)

ApiError(status, message) == [name |-> "ApiError", status |-> status, message |-> message]

\* the held buffer ends inside a frame's JSON object: a chunk boundary fell
\* between the object's opening and its closing
MidObject(buffer) ==
  /\ buffer # <<>>
  /\ buffer[Len(buffer)] \in {"{"} \cup ContentTokens
  /\ IndexOf(buffer, NL) = 0

\* the locals of call c joined with the session fields the read loop sets
StreamState(c) ==
  [buffer |-> calls[c].buffer, result |-> calls[c].result,
   tokenCount |-> calls[c].tokenCount, progress |-> calls[c].progress,
   frames |-> calls[c].frames,
   stage |-> enh.loadingStage, enhancedPrompt |-> enh.enhancedPrompt]

\* call c after its read loop reached st
WithLocals(call, st) ==
  [call EXCEPT !.buffer = st.buffer, !.result = st.result,
               !.tokenCount = st.tokenCount, !.progress = st.progress,
               !.frames = st.frames]

CallIds == 1..Len(calls)

\* the signal of call c's request is aborted
Aborted(c) == calls[c].signal \in aborted

\* `finally { setIsEnhancing(false) }`
Finally(e) == [e EXCEPT !.isEnhancing = FALSE]

\* a call of enhancePrompt that has just started its fetch with `signal`
NewCall(signal, content, mode, imageData) ==
  [pc |-> "fetch", signal |-> signal, content |-> content, mode |-> mode,
   imageData |-> imageData, status |-> NoStatus, errorData |-> None,
   wire |-> <<>>, buffer |-> <<>>, result |-> <<>>, tokenCount |-> 0,
   progress |-> <<>>, frames |-> <<>>, midFrame |-> FALSE,
   ret |-> "pending", outcome |-> "pending"]

\* The call returns ret ("null", or "result" with the text in .result): its
\* frame is gone, what stays is what it returned and, as a record of the run,
\* the outcome and the progress and frames of the stream it read.
Returns(call, ret, outcome) ==
  [NewCall(call.signal, call.content, call.mode, call.imageData) EXCEPT
     !.pc = "done", !.ret = ret, !.outcome = outcome,
     !.result = IF ret = "result" THEN call.result ELSE <<>>,
     !.progress = call.progress, !.frames = call.frames,
     !.midFrame = call.midFrame]

\* the state updates with which a call starts (lines 76-85 and 90)
Started(e, content, mode, imageData) ==
  [e EXCEPT !.isEnhancing = TRUE, !.enhancedPrompt = <<>>,
            !.error = None, !.errorType = "null",
            !.lastMode = mode, !.lastFileType = None,
            !.lastOriginalContent = OriginalContent(content),
            !.lastImageData = imageData,
            !.loadingStage = "analyzing", !.retryCount = 0]

\* enhancePrompt(content, mode, fileType, imageData), up to its first await
EnhancePrompt(content, mode, imageData) ==
  /\ budget > 0
  /\ budget' = budget - 1
  /\ cancelled' = cancelled
  /\ IF (IsBlank(content) /\ ~HasImages(imageData)) \/ view.isEnhancing
     THEN UNCHANGED <<enh, abortControllerRef, aborted, calls>>
     ELSE
       /\ aborted' = IF abortControllerRef # 0
                     THEN aborted \cup {abortControllerRef} ELSE aborted
       /\ abortControllerRef' = Len(calls) + 1
       /\ enh' = Started(enh, content, mode, imageData)
       /\ calls' = Append(calls, NewCall(Len(calls) + 1, content, mode, imageData))
  /\ UNCHANGED <<classifierVars, serverVars, genVars, apiVars, view, body>>

\* `!lastOriginalContent && !lastImageData` as the regenerate callback reads it
NoPreviousPayload(v) == v.lastOriginalContent = "" /\ v.lastImageData = None

\* `lastOriginalContent === "[Image-based prompt]" ? "" : lastOriginalContent`
RegeneratedContent(v) ==
  IF v.lastOriginalContent = "[Image-based prompt]" THEN "" ELSE v.lastOriginalContent

\* `newMode || lastMode`
RegeneratedMode(v, newMode) == IF newMode # None THEN newMode[1] ELSE v.lastMode

\* regenerate(newMode): the callback of the last render, so it reads the
\* payload of that render and calls the enhancePrompt of that render
Regenerate(newMode) ==
  /\ budget > 0
  /\ budget' = budget - 1
  /\ cancelled' = cancelled
  /\ IF NoPreviousPayload(view)
     THEN /\ enh' = [enh EXCEPT !.noPreviousToasts = @ + 1]
          /\ UNCHANGED <<abortControllerRef, aborted, calls>>
     ELSE LET content == RegeneratedContent(view)
              mode == RegeneratedMode(view, newMode)
              imageData == view.lastImageData
              counted == [enh EXCEPT !.retryCount = @ + 1]
          IN IF (IsBlank(content) /\ ~HasImages(imageData)) \/ view.isEnhancing
             THEN /\ enh' = counted
                  /\ UNCHANGED <<abortControllerRef, aborted, calls>>
             ELSE /\ aborted' = IF abortControllerRef # 0
                                THEN aborted \cup {abortControllerRef} ELSE aborted
                  /\ abortControllerRef' = Len(calls) + 1
                  /\ enh' = Started(counted, content, mode, imageData)
                  /\ calls' = Append(calls, NewCall(Len(calls) + 1, content, mode, imageData))
  /\ UNCHANGED <<classifierVars, serverVars, genVars, apiVars, view, body>>

EnhCatchAbort_ReturnsPartial(c) ==
  /\ enh' = Finally([enh EXCEPT !.errorType = "abort"])
  /\ calls' = [calls EXCEPT ![c] = Returns(@, "result", "aborted")]

\* `catch (err) { if (err.name === "AbortError") { setErrorType("abort"); return null } }`
EnhCatchAbort(c) ==
  /\ enh' = Finally([enh EXCEPT !.errorType = "abort"])
  /\ calls' = [calls EXCEPT ![c] = Returns(@, "null", "aborted")]

\* `catch (err) { console.error(...); return null }` for any other error
EnhCatchOther(c, e, outcome) ==
  /\ enh' = Finally(e)
  /\ calls' = [calls EXCEPT ![c] = Returns(@, "null", outcome)]

\* the awaited fetch of call c rejects because its signal was aborted
EnhFetchAborted(c) ==
  /\ calls[c].pc = "fetch"
  /\ Aborted(c)
  /\ EnhCatchAbort(c)
  /\ UNCHANGED <<classifierVars, serverVars, genVars, apiVars, view, abortControllerRef, aborted, cancelled, body, budget>>

\* the awaited fetch of call c rejects with a network error (TypeError)
EnhFetchRejects(c) ==
  /\ calls[c].pc = "fetch"
  /\ ~Aborted(c)
  /\ EnhCatchOther(c, enh, "failed-network")
  /\ UNCHANGED <<classifierVars, serverVars, genVars, apiVars, view, abortControllerRef, aborted, cancelled, body, budget>>

\* the awaited fetch of call c resolves with a response of the given status,
\* whose body is errorData (a failure) or the stream `body` (a success)
EnhFetchResponds(c, status, errorData) ==
  /\ calls[c].pc = "fetch"
  /\ ~Aborted(c)
  /\ IF ~Ok(status)
     THEN /\ calls' = [calls EXCEPT ![c].pc = "errbody", ![c].status = status,
                                    ![c].errorData = errorData]
          /\ enh' = enh
     ELSE /\ calls' = [calls EXCEPT ![c].pc = "read", ![c].status = status,
                                    ![c].wire = body]
          /\ enh' = [enh EXCEPT !.loadingStage = "enhancing"]
  /\ UNCHANGED <<classifierVars, serverVars, genVars, apiVars, view, abortControllerRef, aborted, cancelled, body, budget>>

\* `await resp.json().catch(() => ({}))` of a failure answer settles; the rest
\* of the `if (!resp.ok)` block and the catch it throws into
EnhErrorBody(c) ==
  /\ calls[c].pc = "errbody"
  /\ LET errorData == IF Aborted(c) THEN None ELSE calls[c].errorData
         errorMessage == ErrorMessage(errorData, calls[c].status)
         errType == classifyEnhanceError(ApiError(calls[c].status, errorMessage))
     IN EnhCatchOther(c, [enh EXCEPT !.error = Some(errorMessage), !.errorType = errType],
                      "failed-http")
  /\ UNCHANGED <<classifierVars, serverVars, genVars, apiVars, view, abortControllerRef, aborted, cancelled, body, budget>>

\* the awaited reader.read() of call c rejects because its signal was aborted
EnhReadAborted(c) ==
  /\ calls[c].pc = "read"
  /\ Aborted(c)
  /\ EnhCatchAbort(c)
  /\ UNCHANGED <<classifierVars, serverVars, genVars, apiVars, view, abortControllerRef, aborted, cancelled, body, budget>>

\* reader.read() of call c yields the next k tokens of the body as one chunk
EnhReadChunk(c, k) ==
  /\ calls[c].pc = "read"
  /\ ~Aborted(c)
  /\ k \in 1..Len(calls[c].wire)
  /\ LET st == Feed(StreamState(c), SubSeq(calls[c].wire, 1, k)) IN
       /\ calls' = [calls EXCEPT ![c] =
                      [WithLocals(@, st) EXCEPT !.wire = Slice(@, k),
                                                !.midFrame = @ \/ MidObject(st.buffer)]]
       /\ enh' = [enh EXCEPT !.loadingStage = st.stage, !.enhancedPrompt = st.enhancedPrompt]
  /\ UNCHANGED <<classifierVars, serverVars, genVars, apiVars, view, abortControllerRef, aborted, cancelled, body, budget>>

\* reader.read() of call c reports done: the flush and the return of the result
EnhReadDone(c) ==
  /\ calls[c].pc = "read"
  /\ ~Aborted(c)
  /\ calls[c].wire = <<>>
  /\ LET st == Flush(StreamState(c)) IN
       /\ calls' = [calls EXCEPT ![c] = Returns(WithLocals(@, st), "result", "completed")]
       /\ enh' = Finally([enh EXCEPT !.loadingStage = st.stage,
                                     !.enhancedPrompt = st.enhancedPrompt])
  /\ UNCHANGED <<classifierVars, serverVars, genVars, apiVars, view, abortControllerRef, aborted, cancelled, body, budget>>

\* the calls whose request waits on the controller in abortControllerRef and
\* has not been answered yet
AwaitingResponse == {c \in CallIds : calls[c].signal = abortControllerRef
                                     /\ calls[c].pc \in {"fetch", "sleep"}}

\* abort(): the user cancels
EnhAbort ==
  /\ budget > 0
  /\ abortControllerRef # 0
  /\ budget' = budget - 1
  /\ aborted' = aborted \cup {abortControllerRef}
  /\ cancelled' = cancelled \cup AwaitingResponse
  /\ UNCHANGED <<classifierVars, serverVars, genVars, apiVars, enh, view, abortControllerRef, calls, body>>

\* clearEnhanced(): abort the request in flight and forget text and payload
ClearEnhanced ==
  /\ budget > 0
  /\ budget' = budget - 1
  /\ aborted' = IF abortControllerRef # 0
                THEN aborted \cup {abortControllerRef} ELSE aborted
  /\ cancelled' = IF abortControllerRef # 0
                  THEN cancelled \cup AwaitingResponse ELSE cancelled
  /\ enh' = [enh EXCEPT !.enhancedPrompt = <<>>, !.lastOriginalContent = "",
                        !.lastFileType = None, !.lastImageData = None,
                        !.error = None, !.errorType = "null", !.retryCount = 0,
                        !.loadingStage = "connecting"]
  /\ UNCHANGED <<classifierVars, serverVars, genVars, apiVars, view, abortControllerRef, calls, body>>

\* React re-renders: the callbacks are re-created over the current state
Render ==
  /\ view # Closure(enh)
  /\ view' = Closure(enh)
  /\ UNCHANGED <<classifierVars, serverVars, genVars, apiVars, enh, abortControllerRef, aborted, cancelled, calls, body, budget>>

(***************************************************************************)
(* useApiCall (src/hooks/useApiCall.ts)                                    *)
(***************************************************************************)
DEFAULT_RETRIES == 3
DEFAULT_RETRY_DELAY == 1000

\* largest `retries` option the model passes
MaxApiRetries == 1

\* the useState initial values
ApiInitialState ==
  [data |-> None, error |-> None, isLoading |-> FALSE, retryAttempt |-> 0,
   isAborting |-> FALSE]

ApiOptions == [retries : 0..MaxApiRetries, retryDelay : {DEFAULT_RETRY_DELAY},
               isStreaming : BOOLEAN]

ApiIdle ==
  /\ api = ApiInitialState
  /\ apiOpts = [retries |-> DEFAULT_RETRIES, retryDelay |-> DEFAULT_RETRY_DELAY,
                isStreaming |-> FALSE]
  /\ timers = 0

\* a call of execute whose attempt `attempt` has just called fetch with `signal`
NewAttempt(signal, attempt) ==
  [pc |-> "fetch", signal |-> signal, attempt |-> attempt, status |-> NoStatus,
   errorData |-> None, wire |-> <<>>, buffer |-> <<>>, result |-> <<>>,
   progress |-> <<>>, frames |-> <<>>, delay |-> 0, requests |-> 0,
   ret |-> "pending", outcome |-> "pending"]

\* fetch(url, { signal }) sends a request unless the signal is already aborted
Sends(signal) == IF signal \in aborted THEN 0 ELSE 1

\* execute returns; what stays of the call is what it returned
ApiReturns(call, ret, outcome) ==
  [NewAttempt(call.signal, call.attempt) EXCEPT
     !.pc = "done", !.ret = ret, !.outcome = outcome, !.requests = call.requests,
     !.result = IF ret = "result" THEN call.result ELSE <<>>,
     !.progress = call.progress, !.frames = call.frames]

\* execute(), up to its first await
ApiExecute ==
  /\ budget > 0
  /\ budget' = budget - 1
  /\ aborted' = IF abortControllerRef # 0
                THEN aborted \cup {abortControllerRef} ELSE aborted
  /\ abortControllerRef' = Len(calls) + 1
  /\ api' = [api EXCEPT !.isAborting = IF abortControllerRef # 0 THEN FALSE ELSE @,
                        !.isLoading = TRUE, !.error = None, !.data = None,
                        !.retryAttempt = 0]
  /\ calls' = Append(calls, [NewAttempt(Len(calls) + 1, 0) EXCEPT !.requests = 1])
  /\ cancelled' = cancelled
  /\ UNCHANGED <<classifierVars, serverVars, genVars, enh, view, body, apiOpts, timers>>

\* `catch (err) { if (err.name === "AbortError") { ...; return null } }`
ApiCatchAbort(c) ==
  /\ api' = [api EXCEPT !.isAborting = TRUE, !.isLoading = FALSE]
  /\ calls' = [calls EXCEPT ![c] = ApiReturns(@, "null", "aborted")]

\* the signal a retried attempt hands to fetch: `abortControllerRef.current.signal`
RetrySignal(c) == abortControllerRef

ApiCatchOther_KeepsText(c, err, r) ==
  IF calls[c].attempt < apiOpts.retries
  THEN /\ calls' = [calls EXCEPT ![c].pc = "sleep",
                        ![c].delay = JitteredDelay(apiOpts.retryDelay, calls[c].attempt, r),
                        ![c].status = NoStatus, ![c].errorData = None,
                        ![c].wire = <<>>]
       /\ api' = api
  ELSE /\ api' = [api EXCEPT !.error = Some(err), !.isLoading = FALSE]
       /\ calls' = [calls EXCEPT ![c] = ApiReturns(@, "null", "failed")]

\* the rest of the catch block for an error err that is no AbortError: back
\* off and retry while attempt < retries, else surface the error; r is the
\* value of Math.random() in thousandths
ApiCatchOther(c, err, r) ==
  IF calls[c].attempt < apiOpts.retries
  THEN /\ calls' = [calls EXCEPT ![c].pc = "sleep",
                        ![c].delay = JitteredDelay(apiOpts.retryDelay, calls[c].attempt, r),
                        ![c].status = NoStatus, ![c].errorData = None,
                        ![c].wire = <<>>, ![c].buffer = <<>>, ![c].result = <<>>]
       /\ api' = api
  ELSE /\ api' = [api EXCEPT !.error = Some(err), !.isLoading = FALSE]
       /\ calls' = [calls EXCEPT ![c] = ApiReturns(@, "null", "failed")]

\* the awaited fetch of call c rejects because its signal is aborted
ApiFetchAborted(c) ==
  /\ calls[c].pc = "fetch"
  /\ Aborted(c)
  /\ ApiCatchAbort(c)
  /\ UNCHANGED <<classifierVars, serverVars, genVars, enh, view, abortControllerRef, aborted, cancelled,
                 body, budget, apiOpts, timers>>

\* the awaited fetch of call c rejects with a network error (TypeError)
ApiFetchRejects(c, r) ==
  /\ calls[c].pc = "fetch"
  /\ ~Aborted(c)
  /\ ApiCatchOther(c, [name |-> "TypeError", status |-> NoStatus,
                       message |-> <<"Failed", "to", "fetch">>], r)
  /\ UNCHANGED <<classifierVars, serverVars, genVars, enh, view, abortControllerRef, aborted, cancelled,
                 body, budget, apiOpts, timers>>

\* the awaited fetch of call c resolves with a response of the given status,
\* whose body is errorData (a failure) or `body` (a success)
ApiFetchResponds(c, status, errorData) ==
  /\ calls[c].pc = "fetch"
  /\ ~Aborted(c)
  /\ calls' = IF ~Ok(status)
              THEN [calls EXCEPT ![c].pc = "errbody", ![c].status = status,
                                 ![c].errorData = errorData]
              ELSE [calls EXCEPT ![c].pc = IF apiOpts.isStreaming THEN "read" ELSE "json",
                                 ![c].status = status, ![c].wire = body]
  /\ UNCHANGED <<classifierVars, serverVars, genVars, enh, view, abortControllerRef, aborted, cancelled,
                 body, budget, apiVars>>

\* `await resp.json().catch(() => ({}))` of a failure answer settles and
\* `throw new ApiError(resp.status, errorMessage)` lands in the catch block
ApiErrorBody(c, r) ==
  /\ calls[c].pc = "errbody"
  /\ LET errorData == IF Aborted(c) THEN None ELSE calls[c].errorData
     IN ApiCatchOther(c, ApiError(calls[c].status, ErrorMessage(errorData, calls[c].status)), r)
  /\ UNCHANGED <<classifierVars, serverVars, genVars, enh, view, abortControllerRef, aborted, cancelled,
                 body, budget, apiOpts, timers>>

\* non-streaming: `await resp.json()` settles; setData(result) and return
ApiJson(c) ==
  /\ calls[c].pc = "json"
  /\ IF Aborted(c) THEN ApiCatchAbort(c)
     ELSE /\ api' = [api EXCEPT !.data = Some(calls[c].wire), !.isLoading = FALSE]
          /\ calls' = [calls EXCEPT ![c] =
                         ApiReturns([@ EXCEPT !.result = calls[c].wire], "result", "completed")]
  /\ UNCHANGED <<classifierVars, serverVars, genVars, enh, view, abortControllerRef, aborted, cancelled,
                 body, budget, apiOpts, timers>>

\* the read loop's locals of call c (useApiCall's loop is the loop of
\* useEnhancePrompt without the stage and the token count)
ApiStreamState(c) ==
  [buffer |-> calls[c].buffer, result |-> calls[c].result, tokenCount |-> 0,
   progress |-> calls[c].progress, frames |-> calls[c].frames,
   stage |-> "none", enhancedPrompt |-> <<>>]

ApiWithLocals(call, st) ==
  [call EXCEPT !.buffer = st.buffer, !.result = st.result,
               !.progress = st.progress, !.frames = st.frames]

\* the awaited reader.read() of call c rejects because its signal was aborted
ApiReadAborted(c) ==
  /\ calls[c].pc = "read"
  /\ Aborted(c)
  /\ ApiCatchAbort(c)
  /\ UNCHANGED <<classifierVars, serverVars, genVars, enh, view, abortControllerRef, aborted, cancelled,
                 body, budget, apiOpts, timers>>

\* the awaited reader.read() of call c rejects with a network error: the
\* connection dropped in the middle of the stream
ApiReadRejects(c, r) ==
  /\ calls[c].pc = "read"
  /\ ~Aborted(c)
  /\ ApiCatchOther(c, [name |-> "TypeError", status |-> NoStatus,
                       message |-> <<"network", "error">>], r)
  /\ UNCHANGED <<classifierVars, serverVars, genVars, enh, view, abortControllerRef, aborted, cancelled,
                 body, budget, apiOpts, timers>>

\* reader.read() of call c yields the next k tokens of the body as one chunk
ApiReadChunk(c, k) ==
  /\ calls[c].pc = "read"
  /\ ~Aborted(c)
  /\ k \in 1..Len(calls[c].wire)
  /\ LET st == Feed(ApiStreamState(c), SubSeq(calls[c].wire, 1, k)) IN
       calls' = [calls EXCEPT ![c] = [ApiWithLocals(@, st) EXCEPT !.wire = Slice(@, k)]]
  /\ UNCHANGED <<classifierVars, serverVars, genVars, enh, view, abortControllerRef, aborted, cancelled,
                 body, budget, apiVars>>

\* reader.read() of call c reports done: flush, onStreamDone, return
ApiReadDone(c) ==
  /\ calls[c].pc = "read"
  /\ ~Aborted(c)
  /\ calls[c].wire = <<>>
  /\ LET st == Flush(ApiStreamState(c)) IN
       calls' = [calls EXCEPT ![c] = ApiReturns(ApiWithLocals(@, st), "result", "completed")]
  /\ api' = [api EXCEPT !.isLoading = FALSE]
  /\ UNCHANGED <<classifierVars, serverVars, genVars, enh, view, abortControllerRef, aborted, cancelled,
                 body, budget, apiOpts, timers>>

\* `await delay(delayMs)` of call c is over: `continue`, attempt++,
\* setRetryAttempt(attempt) and the next fetch
ApiWake(c) ==
  /\ calls[c].pc = "sleep"
  /\ calls' = [calls EXCEPT ![c].pc = "fetch", ![c].attempt = @ + 1, ![c].delay = 0,
                            ![c].signal = RetrySignal(c),
                            ![c].requests = @ + Sends(RetrySignal(c))]
  /\ api' = [api EXCEPT !.retryAttempt = calls[c].attempt + 1]
  /\ UNCHANGED <<classifierVars, serverVars, genVars, enh, view, abortControllerRef, aborted, cancelled,
                 body, budget, apiOpts, timers>>

\* abort(): the user cancels; a 300 ms timer is set to reset the state
ApiAbort ==
  /\ budget > 0
  /\ abortControllerRef # 0
  /\ budget' = budget - 1
  /\ aborted' = aborted \cup {abortControllerRef}
  /\ cancelled' = cancelled \cup AwaitingResponse
  /\ api' = [api EXCEPT !.isAborting = TRUE]
  /\ timers' = timers + 1
  /\ UNCHANGED <<classifierVars, serverVars, genVars, enh, view, abortControllerRef, calls,
                 body, apiOpts>>

\* the 300 ms timer of an abort() fires
ApiAbortTimer ==
  /\ timers > 0
  /\ timers' = timers - 1
  /\ api' = [api EXCEPT !.isAborting = FALSE, !.isLoading = FALSE, !.error = None,
                        !.data = None, !.retryAttempt = 0]
  /\ UNCHANGED <<classifierVars, serverVars, genVars, enh, view, abortControllerRef, aborted, cancelled,
                 calls, body, budget, apiOpts>>

(***************************************************************************)
(* useGenerateComponent (src/hooks/useGenerateComponent.ts)                *)
(***************************************************************************)
\* the useState initial values
GenInitialState == [generatedCode |-> <<>>, isGenerating |-> FALSE, error |-> None]

GenIdle == gen = GenInitialState

\* a call of generateComponent that has just called fetch with its controller
NewGeneration(controller, refinement) ==
  [pc |-> "fetch", signal |-> controller, refinement |-> refinement,
   wire |-> <<>>, buffer |-> <<>>, accumulatedCode |-> <<>>, outcome |-> "pending"]

\* generateComponent(config, refinement), up to its first await
GenerateComponent(refinement) ==
  /\ budget > 0
  /\ budget' = budget - 1
  /\ aborted' = IF abortControllerRef # 0
                THEN aborted \cup {abortControllerRef} ELSE aborted
  /\ abortControllerRef' = Len(calls) + 1
  /\ gen' = [gen EXCEPT !.isGenerating = TRUE, !.error = None,
                        !.generatedCode = IF refinement THEN @ ELSE <<>>]
  /\ calls' = Append(calls, NewGeneration(Len(calls) + 1, refinement))
  /\ UNCHANGED <<classifierVars, serverVars, enh, view, cancelled, body, apiVars>>

GenFinally_AnyController(c, ref) == TRUE

\* `abortControllerRef.current === controller` in the finally block of call c
GenFinally(c, ref) == ref = calls[c].signal

\* generateComponent of call c settles with the given outcome and, unless the
\* error is an AbortError, error message: catch and finally
GenSettles(c, g, outcome) ==
  /\ calls' = [calls EXCEPT ![c].pc = "done", ![c].outcome = outcome, ![c].wire = <<>>,
                            ![c].buffer = <<>>]
  /\ IF GenFinally(c, abortControllerRef)
       THEN /\ gen' = [g EXCEPT !.isGenerating = FALSE]
            /\ abortControllerRef' = 0
       ELSE /\ gen' = g
            /\ abortControllerRef' = abortControllerRef

\* the messages of the errors generateComponent throws for a failure answer
GenErrorMessage(status) ==
  IF status = 429 THEN <<"Too", "many", "requests">>
  ELSE IF status = 402 THEN <<"Credit", "limit">>
  ELSE <<"Generation", "failed:", ToString(status)>>

\* the awaited fetch or read of call c rejects because its signal was aborted
GenAborted(c) ==
  /\ calls[c].pc \in {"fetch", "read"}
  /\ Aborted(c)
  /\ GenSettles(c, gen, "aborted")
  /\ UNCHANGED <<classifierVars, serverVars, enh, view, aborted, cancelled, body, budget,
                 apiVars>>

\* the awaited fetch or read of call c rejects with a network error
GenRejects(c) ==
  /\ calls[c].pc \in {"fetch", "read"}
  /\ ~Aborted(c)
  /\ GenSettles(c, [gen EXCEPT !.error = Some(<<"Failed", "to", "fetch">>)], "failed")
  /\ UNCHANGED <<classifierVars, serverVars, enh, view, aborted, cancelled, body, budget,
                 apiVars>>

\* the awaited fetch of call c resolves with a response of the given status
GenFetchResponds(c, status) ==
  /\ calls[c].pc = "fetch"
  /\ ~Aborted(c)
  /\ IF ~Ok(status)
       THEN GenSettles(c, [gen EXCEPT !.error = Some(GenErrorMessage(status))], "failed")
       ELSE /\ calls' = [calls EXCEPT ![c].pc = "read", ![c].wire = body]
            /\ UNCHANGED <<gen, abortControllerRef>>
  /\ UNCHANGED <<classifierVars, serverVars, enh, view, aborted, cancelled, body, budget,
                 apiVars>>

\* The loop over the complete lines of a chunk.  The result is the set of the
\* pairs (accumulatedCode, shown) the loop can end with: setGeneratedCode is
\* called for a delta only when more than UPDATE_INTERVAL ms have passed since
\* the last update, which depends on the clock.
RECURSIVE GenLines(_, _, _)
GenLines(lines, acc, shown) ==
  IF lines = <<>> THEN {<<acc, shown>>}
  ELSE
    LET trimmedLine == Trim(Head(lines))
        jsonStr == Slice(trimmedLine, Len(DataPrefix))
    IN
    IF trimmedLine = <<>> \/ StartsWith(trimmedLine, <<":">>)
         \/ trimmedLine = DataPrefix \o DoneMark
      THEN GenLines(Tail(lines), acc, shown)
    ELSE IF StartsWith(trimmedLine, DataPrefix) /\ IsFrameJson(Trim(jsonStr))
              /\ DeltaContent(Trim(jsonStr)) # <<>>
      THEN GenLines(Tail(lines), acc \o DeltaContent(Trim(jsonStr)), shown)
             \cup GenLines(Tail(lines), acc \o DeltaContent(Trim(jsonStr)),
                           acc \o DeltaContent(Trim(jsonStr)))
    ELSE GenLines(Tail(lines), acc, shown)

\* reader.read() of call c yields the next k tokens of the body as one chunk
GenReadChunk(c, k) ==
  /\ calls[c].pc = "read"
  /\ ~Aborted(c)
  /\ k \in 1..Len(calls[c].wire)
  /\ LET lines == Split(calls[c].buffer \o SubSeq(calls[c].wire, 1, k)) IN
       \E res \in GenLines(SubSeq(lines, 1, Len(lines) - 1), calls[c].accumulatedCode,
                           gen.generatedCode) :
         /\ calls' = [calls EXCEPT ![c].wire = Slice(@, k),
                                   ![c].buffer = lines[Len(lines)],
                                   ![c].accumulatedCode = res[1]]
         /\ gen' = [gen EXCEPT !.generatedCode = res[2]]
  /\ UNCHANGED <<classifierVars, serverVars, enh, view, abortControllerRef, aborted,
                 cancelled, body, budget, apiVars>>

\* reader.read() of call c reports done: the final setGeneratedCode and finally
GenReadDone(c) ==
  /\ calls[c].pc = "read"
  /\ ~Aborted(c)
  /\ calls[c].wire = <<>>
  /\ GenSettles(c, [gen EXCEPT !.generatedCode = calls[c].accumulatedCode], "completed")
  /\ UNCHANGED <<classifierVars, serverVars, enh, view, aborted, cancelled, body, budget,
                 apiVars>>

\* stopGeneration and the state after it
Stopped(g) == [g EXCEPT !.isGenerating = FALSE]

\* stopGeneration()
StopGeneration ==
  /\ budget > 0
  /\ budget' = budget - 1
  /\ IF abortControllerRef # 0
       THEN /\ aborted' = aborted \cup {abortControllerRef}
            /\ abortControllerRef' = 0
            /\ gen' = Stopped(gen)
       ELSE UNCHANGED <<aborted, abortControllerRef, gen>>
  /\ UNCHANGED <<classifierVars, serverVars, enh, view, cancelled, calls, body, apiVars>>

\* reset(): stopGeneration(), then the code and the error are cleared
Reset ==
  /\ budget > 0
  /\ budget' = budget - 1
  /\ IF abortControllerRef # 0
       THEN /\ aborted' = aborted \cup {abortControllerRef}
            /\ abortControllerRef' = 0
            /\ gen' = [Stopped(gen) EXCEPT !.generatedCode = <<>>, !.error = None]
       ELSE /\ gen' = [gen EXCEPT !.generatedCode = <<>>, !.error = None]
            /\ UNCHANGED <<aborted, abortControllerRef>>
  /\ UNCHANGED <<classifierVars, serverVars, enh, view, cancelled, calls, body, apiVars>>

(***************************************************************************)
(* The enhance-prompt edge function: rate limiter                          *)
(* (supabase/functions/enhance-prompt/utils/rateLimiter.ts)                *)
(***************************************************************************)
RATE_LIMIT_PER_MINUTE == 60
WINDOW_MS == 60000

\* client identities (the x-forwarded-for header, "unknown" when it is missing)
Clients == {"10.0.0.1", "unknown"}

\* the clock advances in steps of a third of a window, up to MaxTicks steps
TickMs == WINDOW_MS \div 3
MaxTicks == 4
TickOf(ms) == ms \div TickMs

\* rateLimitMap.get(ip) of a client without an entry
NoEntry == [count |-> 0, resetAt |-> 0]

\* an observer that counts the allowed requests of one client during the
\* WINDOW_MS milliseconds after the moment it starts watching
NoWatch == [ip |-> "none", from |-> 0, count |-> 0]

NoAnswer == [ip |-> "none", allowed |-> FALSE, remaining |-> 0, resetIn |-> 0]
NoResponse == [kind |-> "none", status |-> 0, payload |-> None]

\* handleEnhanceRequest is not running
NoHandler == [pc |-> "idle", key |-> TRUE, imageErrors |-> <<>>, errorText |-> "unread"]

GateIdle ==
  gate = [now |-> 0,
          rateLimitMap |-> [ip \in Clients |-> NoEntry],
          watch |-> NoWatch,
          answer |-> NoAnswer,
          response |-> NoResponse,
          handler |-> NoHandler]

CurrentEntry_KeepsExpired(map, ip, now) == map[ip]

\* the entry left after an expired one was deleted (rateLimiter.ts 21-23)
CurrentEntry(map, ip, now) ==
  IF map[ip] # NoEntry /\ map[ip].resetAt < now THEN NoEntry ELSE map[ip]

\* checkRateLimit: the new map and the answer
checkRateLimit(map, ip, now) ==
  LET current == CurrentEntry(map, ip, now)
  IN  IF current = NoEntry
        THEN [map |-> [map EXCEPT ![ip] = [count |-> 1, resetAt |-> now + WINDOW_MS]],
              allowed |-> TRUE, remaining |-> RATE_LIMIT_PER_MINUTE - 1,
              resetIn |-> WINDOW_MS]
      ELSE IF current.count >= RATE_LIMIT_PER_MINUTE
        THEN [map |-> map, allowed |-> FALSE, remaining |-> 0,
              resetIn |-> current.resetAt - now]
      ELSE [map |-> [map EXCEPT ![ip] = [current EXCEPT !.count = @ + 1]],
            allowed |-> TRUE, remaining |-> RATE_LIMIT_PER_MINUTE - (current.count + 1),
            resetIn |-> current.resetAt - now]

\* the observer's interval holds the current moment
Watching(ip) == gate.watch.ip = ip /\ gate.now < gate.watch.from + WINDOW_MS

\* the gate after checkRateLimit(ip) answered r
Limited(ip, r) ==
  [gate EXCEPT !.rateLimitMap = r.map,
               !.watch.count = IF r.allowed /\ Watching(ip) THEN @ + 1 ELSE @,
               !.answer = [ip |-> ip, allowed |-> r.allowed, remaining |-> r.remaining,
                           resetIn |-> r.resetIn]]

\* one call of checkRateLimit
CheckRateLimit(ip) ==
  /\ gate' = Limited(ip, checkRateLimit(gate.rateLimitMap, ip, gate.now))
  /\ UNCHANGED <<classifierVars, retryVars, hookVars>>

\* the observer starts watching client ip
Observe(ip) ==
  /\ gate.watch = NoWatch
  /\ gate' = [gate EXCEPT !.watch = [ip |-> ip, from |-> gate.now, count |-> 0]]
  /\ UNCHANGED <<classifierVars, retryVars, hookVars>>

\* Date.now() moves on
Tick ==
  /\ TickOf(gate.now) < MaxTicks
  /\ gate' = [gate EXCEPT !.now = @ + TickMs]
  /\ UNCHANGED <<classifierVars, retryVars, hookVars>>

(***************************************************************************)
(* The enhance-prompt edge function: request validation                    *)
(* (supabase/functions/enhance-prompt/utils/validation.ts)                 *)
(***************************************************************************)
MAX_CONTENT_LENGTH == 10000
MAX_IMAGE_SIZE == 5242880
MAX_IMAGES == 5
VALID_MODES == {"formal", "creative", "technical", "marketing"}

\* a JSON member that is missing (undefined after destructuring) and JSON values
\* that are neither a string nor an array
Undefined == [type |-> "undefined"]
JsonNull == [type |-> "null"]
JsonNumber == [type |-> "number"]

\* a string by what validateRequest looks at: its length and whether trim()
\* leaves anything
Str(length, blank) == [type |-> "string", length |-> length, blank |-> blank]

\* an image string: whether it starts with "data:image/", its length, and the
\* length of the part between its first and second comma (0: there is none)
HeaderLength == 22
Img(dataImage, base64Length) ==
  [type |-> "image", dataImage |-> dataImage, length |-> HeaderLength + base64Length,
   base64Length |-> base64Length, mime |-> "png"]

\* the longest base64 part whose estimated size is within MAX_IMAGE_SIZE
MaxBase64Length == (MAX_IMAGE_SIZE * 4) \div 3

GoodImg == Img(TRUE, 8)
EdgeImg == Img(TRUE, MaxBase64Length)
BigImg == Img(TRUE, MaxBase64Length + 1)
NotUrlImg == Img(FALSE, 8)
\* a data URL of an image type that processImages does not support
SvgImg == [Img(TRUE, 8) EXCEPT !.mime = "svg+xml"]

RequestContents ==
  {Undefined, JsonNumber, Str(0, TRUE), Str(3, TRUE), Str(5, FALSE),
   Str(MAX_CONTENT_LENGTH, FALSE), Str(MAX_CONTENT_LENGTH + 1, FALSE)}

\* a mode string by its value
ModeStr(value) == [type |-> "string", value |-> value]

RequestModes ==
  {Undefined, JsonNull, ModeStr("formal"), ModeStr("marketing"), ModeStr("poetic")}

RequestImageData ==
  {Undefined, JsonNull, GoodImg, NotUrlImg,
   [type |-> "array", items |-> <<>>],
   [type |-> "array", items |-> <<GoodImg>>],
   [type |-> "array", items |-> <<GoodImg, SvgImg>>],
   [type |-> "array", items |-> <<EdgeImg>>],
   [type |-> "array", items |-> <<BigImg>>],
   [type |-> "array", items |-> <<JsonNumber>>],
   [type |-> "array", items |-> <<GoodImg, NotUrlImg>>],
   [type |-> "array", items |-> <<BigImg, NotUrlImg>>],
   [type |-> "array", items |-> [i \in 1..MAX_IMAGES |-> GoodImg]],
   [type |-> "array", items |-> [i \in 1..(MAX_IMAGES + 1) |-> GoodImg]]}

\* the parsed request bodies: JSON objects, and JSON values that are no objects
JsonObjects ==
  [type : {"object"}, content : RequestContents, mode : RequestModes,
   imageData : RequestImageData]

JsonBodies == JsonObjects \cup {JsonNull, JsonNumber}

Valid == [valid |-> TRUE, status |-> 0]
Invalid(status) == [valid |-> FALSE, status |-> status]

\* const images = Array.isArray(imageData) ? imageData : [imageData]
ImagesOf(imageData) ==
  IF imageData.type = "array" THEN imageData.items ELSE <<imageData>>

\* img.split(",")[1] || img
Base64Data(img) == IF img.base64Length > 0 THEN img.base64Length ELSE img.length

\* the loop over the images: the answer of the first image that fails
RECURSIVE ValidateImages(_)
ValidateImages(images) ==
  IF images = <<>> THEN Valid
  ELSE LET img == Head(images)
       IN  IF img.type # "image" THEN Invalid(400)
           ELSE IF ~img.dataImage THEN Invalid(400)
           ELSE IF Base64Data(img) * 3 > MAX_IMAGE_SIZE * 4 THEN Invalid(413)
           ELSE ValidateImages(Tail(images))

\* VALID_MODES.includes(mode)
ValidMode(mode) == mode.type = "string" /\ mode.value \in VALID_MODES

\* !imageData: of the values of RequestImageData only undefined and null are falsy
Falsy(v) == v.type \in {"undefined", "null"}

\* !content?.trim(): content is undefined here or a string
BlankContent(content) == content.type = "undefined" \/ content.blank

validateRequest(b) ==
  IF b.type # "object" THEN Invalid(400)
  ELSE IF b.content.type # "undefined" /\ b.content.type # "string" THEN Invalid(400)
  ELSE IF b.content.type = "string" /\ b.content.length > MAX_CONTENT_LENGTH
    THEN Invalid(400)
  ELSE IF b.mode.type # "undefined" /\ ~ValidMode(b.mode) THEN Invalid(400)
  ELSE IF b.imageData.type # "undefined" /\ Len(ImagesOf(b.imageData)) > MAX_IMAGES
    THEN Invalid(400)
  ELSE IF b.imageData.type # "undefined" /\ ~ValidateImages(ImagesOf(b.imageData)).valid
    THEN ValidateImages(ImagesOf(b.imageData))
  ELSE IF BlankContent(b.content) /\ Falsy(b.imageData) THEN Invalid(400)
  ELSE Valid

(***************************************************************************)
(* The enhance-prompt edge function: the serve handler                     *)
(***************************************************************************)
\* a request body that req.json() cannot parse
NotJson == [type |-> "not-json"]

RequestBodies == JsonBodies \cup {NotJson}
Methods == {"OPTIONS", "POST"}

\* the statuses of the responses of handleEnhanceRequest
HandlerStatuses == {200, 400, 402, 429, 500}

Response(kind, status, payload) == [kind |-> kind, status |-> status, payload |-> payload]

\* one request served: CORS preflight, rate limit, JSON parsing, validation and,
\* last, handleEnhanceRequest(body), whose response is passed on
Serve(method, ip, b) ==
  /\ IF method = "OPTIONS"
       THEN gate' = [gate EXCEPT !.response = Response("cors", 200, None)]
     ELSE LET rateLimit == checkRateLimit(gate.rateLimitMap, ip, gate.now)
              limited == Limited(ip, rateLimit)
              validation == validateRequest(b)
          IN  IF ~rateLimit.allowed
                THEN gate' = [limited EXCEPT !.response = Response("rate-limited", 429, None)]
              ELSE IF b = NotJson
                THEN gate' = [limited EXCEPT !.response = Response("bad-json", 400, None)]
              ELSE IF ~validation.valid
                THEN gate' = [limited EXCEPT !.response =
                                Response("invalid", validation.status, None)]
              ELSE \E status \in HandlerStatuses :
                     gate' = [limited EXCEPT !.response = Response("handled", status, Some(b))]
  /\ UNCHANGED <<classifierVars, retryVars, hookVars>>

(***************************************************************************)
(* The enhance-prompt edge function: handleEnhanceRequest                  *)
(* (supabase/functions/enhance-prompt/handlers/enhance.ts, and             *)
(* utils/imageProcessor.ts)                                                *)
(***************************************************************************)
\* /^data:image\/(png|jpeg|jpg|gif|webp);base64,/i matches the image
SupportedMime(img) == img.mime \in {"png", "jpeg", "jpg", "gif", "webp"}

\* processImages: the images kept and the errors pushed, in order
RECURSIVE processImages(_)
processImages(images) ==
  IF images = <<>> THEN [processed |-> <<>>, errors |-> <<>>]
  ELSE LET img == Head(images)
           rest == processImages(Tail(images))
       IN  IF img.type # "image" \/ ~img.dataImage
             THEN [rest EXCEPT !.errors = <<"invalid-data-url">> \o @]
           ELSE IF ~SupportedMime(img)
             THEN [rest EXCEPT !.errors = <<"unsupported-format">> \o @]
           ELSE IF img.base64Length * 3 > MAX_IMAGE_SIZE * 4
             THEN [rest EXCEPT !.errors = <<"too-large">> \o @]
           ELSE [rest EXCEPT !.processed = <<img>> \o @]

\* response.body of the gateway response with the given status
GatewayBody(status) == [from |-> "gateway", status |-> status]

\* the JSON {error} answers
JsonError(status, message) == Response("json-error", status, Some(message))

\* the try block after fetchWithRetry settled as r: the stream of an OK
\* response is passed on; for any other response `await response.text()` comes
\* first, and if that rejects the catch block answers, as it does when
\* fetchWithRetry threw
handleGatewayResult(r, textReadable) ==
  IF r.pc = "threw" THEN JsonError(500, "gateway-call-failed")
  ELSE IF Ok(r.result) THEN Response("event-stream", 200, Some(GatewayBody(r.result)))
  ELSE IF ~textReadable THEN JsonError(500, "gateway-call-failed")
  ELSE IF r.result = 429 THEN JsonError(429, "too-many-requests")
  ELSE IF r.result = 402 THEN JsonError(402, "usage-limit")
  ELSE JsonError(500, "service-unavailable")

\* handleEnhanceRequest(body) up to its first await: the API key, the images,
\* and the call of fetchWithRetry with the default options
HandleEnhanceRequest(b, key) ==
  /\ gate.handler.pc = "idle"
  /\ rt.pc = "off"
  /\ LET images == IF Falsy(b.imageData) THEN <<>> ELSE ImagesOf(b.imageData)
         errors == processImages(images).errors
     IN  IF ~key
           THEN /\ gate' = [gate EXCEPT !.handler = [NoHandler EXCEPT !.pc = "answered",
                                                                       !.key = FALSE],
                                        !.response = JsonError(500, "no-api-key")]
                /\ rt' = rt
         ELSE IF errors # <<>>
           THEN /\ gate' = [gate EXCEPT !.handler = [NoHandler EXCEPT !.pc = "answered",
                                                                       !.imageErrors = errors],
                                        !.response = JsonError(400, errors)]
                /\ rt' = rt
         ELSE /\ gate' = [gate EXCEPT !.handler = [NoHandler EXCEPT !.pc = "gateway"]]
              /\ rt' = [rt EXCEPT !.pc = "init", !.opts = DEFAULT_OPTIONS]
  /\ UNCHANGED <<classifierVars, hookVars>>

\* fetchWithRetry has settled and handleEnhanceRequest answers
HandleGatewayResult(textReadable) ==
  /\ gate.handler.pc = "gateway"
  /\ rt.pc \in {"returned", "threw"}
  /\ gate' = [gate EXCEPT
                !.handler.pc = "answered",
                !.handler.errorText =
                   IF rt.pc = "threw" \/ Ok(rt.result) THEN "unread"
                   ELSE IF textReadable THEN "read" ELSE "failed",
                !.response = handleGatewayResult(rt, textReadable)]
  /\ UNCHANGED <<classifierVars, retryVars, hookVars>>

(***************************************************************************)
(* Specifications                                                          *)
(***************************************************************************)
vars == <<clsIn, clsOut, rt, enh, view, abortControllerRef, aborted, cancelled, calls, body,
          budget, api, apiOpts, timers, gate, gen>>

HookIdle ==
  /\ enh = EnhanceInitialState
  /\ GenIdle
  /\ view = Closure(EnhanceInitialState)
  /\ abortControllerRef = 0
  /\ aborted = {}
  /\ cancelled = {}
  /\ calls = <<>>
  /\ body = <<>>
  /\ budget = 0
  /\ ApiIdle

\* classifyEnhanceError applied to every error of Errors
InitClassify == clsIn \in Errors /\ clsOut = "none" /\ RetryIdle /\ GateIdle /\ HookIdle

NextClassify == Classify

SpecClassify == InitClassify /\ [][NextClassify]_vars

\* one run of fetchWithRetry against an arbitrary gateway
InitRetry ==
  /\ ClassifierIdle
  /\ GateIdle
  /\ HookIdle
  /\ \E o \in RetryOptions :
       rt = [pc |-> "init", opts |-> o, attempt |-> 0, requests |-> 0,
             log |-> <<>>, sleeps |-> <<>>, result |-> "none"]

NextRetry == RetryCall \/ RetryFetchResponds \/ RetryFetchThrows \/ RetryWake

SpecRetry == InitRetry /\ [][NextRetry]_vars

\* the event loop runs every timer and every fetch settles
FairSpecRetry == SpecRetry /\ WF_vars(NextRetry)

\* one call of enhancePrompt against an endpoint that streams any body of
\* StreamBodies, cut into chunks at arbitrary places
InitStream ==
  /\ ClassifierIdle
  /\ RetryIdle
  /\ GateIdle
  /\ enh = EnhanceInitialState
  /\ GenIdle
  /\ view = Closure(EnhanceInitialState)
  /\ abortControllerRef = 0
  /\ aborted = {}
  /\ cancelled = {}
  /\ calls = <<>>
  /\ body \in StreamBodies
  /\ budget = 1
  /\ ApiIdle

NextStream ==
  \/ EnhancePrompt("hello", "formal", None)
  \/ \E c \in CallIds :
       \/ EnhFetchRejects(c)
       \/ \E status \in {200} \cup FailureStatuses, errorData \in ErrorBodies :
            EnhFetchResponds(c, status, errorData)
       \/ EnhErrorBody(c)
       \/ \E k \in 1..Len(calls[c].wire) : EnhReadChunk(c, k)
       \/ EnhReadDone(c)

SpecStream == InitStream /\ [][NextStream]_vars

\* the same call against a server that keeps the connection open: the stream
\* never reports done; every fetch settles and every chunk sent is read
NextOpenStream ==
  \/ EnhancePrompt("hello", "formal", None)
  \/ \E c \in CallIds :
       \/ EnhFetchRejects(c)
       \/ \E status \in {200} \cup FailureStatuses, errorData \in ErrorBodies :
            EnhFetchResponds(c, status, errorData)
       \/ EnhErrorBody(c)
       \/ \E k \in 1..Len(calls[c].wire) : EnhReadChunk(c, k)

FairSpecOpenStream == InitStream /\ [][NextOpenStream]_vars /\ WF_vars(NextOpenStream)

\* most user actions (calls of the hook's functions) in one run
MaxActions == 3

\* the bodies of the runs with several calls
SessionBodies ==
  { JoinLines(<<DataPrefix \o <<"{", "Hi", "}">>>>, TRUE) }

\* the payloads of the runs with several calls
SessionPayloads == { <<"hello", "formal", None>> }

\* the answers of the endpoint in the runs with several calls
SessionAnswers == { <<200, None>>, <<429, Some(<<"slow", "down">>)>> }

\* the sizes of the next chunk of w in the runs with several calls: half of a
\* frame, or all that is left
SessionChunks(w) == {Min(3, Len(w)), Len(w)}

\* Math.random() in the runs with several calls
SessionRandoms == {500}

\* a session of useEnhancePrompt: calls, cancellations and re-renders in any order
InitEnhance ==
  /\ ClassifierIdle
  /\ RetryIdle
  /\ GateIdle
  /\ enh = EnhanceInitialState
  /\ GenIdle
  /\ view = Closure(EnhanceInitialState)
  /\ abortControllerRef = 0
  /\ aborted = {}
  /\ cancelled = {}
  /\ calls = <<>>
  /\ body \in SessionBodies
  /\ budget = MaxActions
  /\ ApiIdle

NextEnhance ==
  \/ \E p \in SessionPayloads : EnhancePrompt(p[1], p[2], p[3])
  \/ \E c \in CallIds :
       \/ EnhFetchAborted(c)
       \/ EnhFetchRejects(c)
       \/ \E a \in SessionAnswers : EnhFetchResponds(c, a[1], a[2])
       \/ EnhErrorBody(c)
       \/ EnhReadAborted(c)
       \/ \E k \in SessionChunks(calls[c].wire) : EnhReadChunk(c, k)
       \/ EnhReadDone(c)
  \/ EnhAbort
  \/ Render

SpecEnhance == InitEnhance /\ [][NextEnhance]_vars

\* the payloads of the first calls in the runs with regenerate
RegenPayloads ==
  { <<"hello", "formal", None>>,
    <<"[Image-based prompt]", "formal", None>>,
    <<"", "formal", Some(<<"img">>)>> }

\* the newMode arguments of regenerate
RegenNewModes == {None, Some("creative")}

\* a session of useEnhancePrompt with regenerate and clearEnhanced
InitRegen == InitEnhance

NextRegen ==
  \/ \E p \in RegenPayloads : EnhancePrompt(p[1], p[2], p[3])
  \/ \E newMode \in RegenNewModes : Regenerate(newMode)
  \/ ClearEnhanced
  \/ \E c \in CallIds :
       \/ EnhFetchAborted(c)
       \/ \E a \in SessionAnswers : EnhFetchResponds(c, a[1], a[2])
       \/ EnhErrorBody(c)
       \/ EnhReadAborted(c)
       \/ EnhReadChunk(c, Len(calls[c].wire))
       \/ EnhReadDone(c)
  \/ Render

SpecRegen == InitRegen /\ [][NextRegen]_vars

\* a session of useApiCall: calls of execute, cancellations, timers, in any order
InitApi ==
  /\ ClassifierIdle
  /\ RetryIdle
  /\ GateIdle
  /\ enh = EnhanceInitialState
  /\ GenIdle
  /\ view = Closure(EnhanceInitialState)
  /\ abortControllerRef = 0
  /\ aborted = {}
  /\ cancelled = {}
  /\ calls = <<>>
  /\ body \in SessionBodies
  /\ budget = MaxActions
  /\ api = ApiInitialState
  /\ apiOpts \in ApiOptions
  /\ timers = 0

NextApi ==
  \/ ApiExecute
  \/ \E c \in CallIds :
       \/ ApiFetchAborted(c)
       \/ \E r \in SessionRandoms : ApiFetchRejects(c, r)
       \/ \E a \in SessionAnswers : ApiFetchResponds(c, a[1], a[2])
       \/ \E r \in SessionRandoms : ApiErrorBody(c, r)
       \/ ApiJson(c)
       \/ ApiReadAborted(c)
       \/ \E k \in SessionChunks(calls[c].wire) : ApiReadChunk(c, k)
       \/ ApiReadDone(c)
       \/ ApiWake(c)
  \/ ApiAbort
  \/ ApiAbortTimer

SpecApi == InitApi /\ [][NextApi]_vars

\* most frames in a body of the runs that retry a stream
MaxFrames == 2

\* bodies of one to MaxFrames well-formed frames
ProgressBodies ==
  { JoinLines(ls, TRUE) :
      ls \in UNION {[1..n -> {DataPrefix \o <<"{", "Hi", "}">>,
                              DataPrefix \o <<"{", " there", "}", CR>>}] :
                      n \in 1..MaxFrames} }

\* one call of execute with isStreaming against an endpoint whose connection
\* may fail before the answer or in the middle of the stream
InitApiStream ==
  /\ ClassifierIdle
  /\ RetryIdle
  /\ GateIdle
  /\ enh = EnhanceInitialState
  /\ GenIdle
  /\ view = Closure(EnhanceInitialState)
  /\ abortControllerRef = 0
  /\ aborted = {}
  /\ cancelled = {}
  /\ calls = <<>>
  /\ body \in ProgressBodies
  /\ budget = 1
  /\ api = ApiInitialState
  /\ apiOpts \in {o \in ApiOptions : o.isStreaming}
  /\ timers = 0

NextApiStream ==
  \/ ApiExecute
  \/ \E c \in CallIds :
       \/ \E r \in SessionRandoms : ApiFetchRejects(c, r)
       \/ \E a \in SessionAnswers : ApiFetchResponds(c, a[1], a[2])
       \/ \E r \in SessionRandoms : ApiErrorBody(c, r)
       \/ \E r \in SessionRandoms : ApiReadRejects(c, r)
       \/ \E k \in 1..Len(calls[c].wire) : ApiReadChunk(c, k)
       \/ ApiReadDone(c)
       \/ ApiWake(c)

SpecApiStream == InitApiStream /\ [][NextApiStream]_vars

\* largest `retries` option of the runs that look at the backoff delays
MaxBackoffRetries == 5

BackoffOptions == [retries : 0..MaxBackoffRetries, retryDelay : {DEFAULT_RETRY_DELAY},
                   isStreaming : {FALSE}]

\* one call of execute, with any configured retry count, against an endpoint
\* that fails or answers at every attempt
InitApiBackoff ==
  /\ ClassifierIdle
  /\ RetryIdle
  /\ GateIdle
  /\ enh = EnhanceInitialState
  /\ GenIdle
  /\ view = Closure(EnhanceInitialState)
  /\ abortControllerRef = 0
  /\ aborted = {}
  /\ cancelled = {}
  /\ calls = <<>>
  /\ body \in SessionBodies
  /\ budget = 1
  /\ api = ApiInitialState
  /\ apiOpts \in BackoffOptions
  /\ timers = 0

NextApiBackoff ==
  \/ ApiExecute
  \/ \E c \in CallIds :
       \/ \E r \in Randoms : ApiFetchRejects(c, r)
       \/ \E a \in SessionAnswers : ApiFetchResponds(c, a[1], a[2])
       \/ \E r \in Randoms : ApiErrorBody(c, r)
       \/ ApiJson(c)
       \/ ApiWake(c)

SpecApiBackoff == InitApiBackoff /\ [][NextApiBackoff]_vars

\* a body of the generate-component endpoint: a frame ending in CR LF, a
\* malformed line, the sentinel, and a last frame without its newline
GenBodies ==
  { JoinLines(<<DataPrefix \o <<"{", "Hi", "}", CR>>, DataPrefix \o <<"{", "Hi">>,
                DataPrefix \o DoneMark, DataPrefix \o <<"{", " there", "}">>>>, FALSE) }

GenStatuses == {200, 429, 500}

\* a session of useGenerateComponent: generations, stops and resets in any order
InitGenerate ==
  /\ ClassifierIdle
  /\ RetryIdle
  /\ GateIdle
  /\ enh = EnhanceInitialState
  /\ GenIdle
  /\ view = Closure(EnhanceInitialState)
  /\ abortControllerRef = 0
  /\ aborted = {}
  /\ cancelled = {}
  /\ calls = <<>>
  /\ body \in GenBodies
  /\ budget = MaxActions
  /\ ApiIdle

NextGenerate ==
  \/ \E refinement \in BOOLEAN : GenerateComponent(refinement)
  \/ \E c \in CallIds :
       \/ GenAborted(c)
       \/ GenRejects(c)
       \/ \E status \in GenStatuses : GenFetchResponds(c, status)
       \/ \E k \in SessionChunks(calls[c].wire) : GenReadChunk(c, k)
       \/ GenReadDone(c)
  \/ StopGeneration
  \/ Reset

SpecGenerate == InitGenerate /\ [][NextGenerate]_vars

\* checkRateLimit called by any client at any time of a clock that never goes back
InitRateLimit ==
  /\ ClassifierIdle
  /\ RetryIdle
  /\ HookIdle
  /\ GateIdle

NextRateLimit ==
  \/ \E ip \in Clients : CheckRateLimit(ip)
  \/ Tick

SpecRateLimit == InitRateLimit /\ [][NextRateLimit]_vars

\* the same, one client's allowed requests counted over an interval of WINDOW_MS
ObservedClients == {"10.0.0.1"}

NextRateWindow ==
  \/ \E ip \in ObservedClients : CheckRateLimit(ip)
  \/ \E ip \in ObservedClients : Observe(ip)
  \/ Tick

SpecRateWindow == InitRateLimit /\ [][NextRateWindow]_vars

\* requests of one client that has been allowed all but two requests of its
\* window, served within that window, with any body
InitServe ==
  /\ ClassifierIdle
  /\ RetryIdle
  /\ HookIdle
  /\ \E ip \in ObservedClients :
       gate = [now |-> 0,
               rateLimitMap |-> [c \in Clients |->
                                  IF c = ip
                                    THEN [count |-> RATE_LIMIT_PER_MINUTE - 2,
                                          resetAt |-> WINDOW_MS]
                                  ELSE NoEntry],
               watch |-> NoWatch,
               answer |-> NoAnswer,
               response |-> NoResponse,
               handler |-> NoHandler]

NextServe ==
  \E method \in Methods : \E ip \in ObservedClients : \E b \in RequestBodies :
    Serve(method, ip, b)

SpecServe == InitServe /\ [][NextServe]_vars

\* the bodies handleEnhanceRequest is called with: those validateRequest
\* accepts, here without a mode and with a content of five characters or none
HandlerBodies ==
  {b \in JsonObjects : /\ validateRequest(b).valid
                       /\ b.mode = Undefined
                       /\ b.content \in {Undefined, Str(5, FALSE)}}

\* one call of handleEnhanceRequest, with or without LOVABLE_API_KEY, against
\* a gateway that answers or throws in any way on every attempt
NextHandle ==
  \/ \E b \in HandlerBodies, key \in BOOLEAN : HandleEnhanceRequest(b, key)
  \/ RetryCall
  \/ RetryFetchResponds
  \/ RetryFetchThrows
  \/ RetryWake
  \/ \E textReadable \in BOOLEAN : HandleGatewayResult(textReadable)

SpecHandle == InitRateLimit /\ [][NextHandle]_vars

(***************************************************************************)
(* Claims                                                                  *)
(***************************************************************************)
\* call c has a request or a stream open on a signal that is not aborted
Active(c) == calls[c].pc \in {"fetch", "errbody", "read", "json"} /\ ~Aborted(c)

\* C1: in one session at most one request/stream is active at any moment: a
\* call that was superseded by a newer call never has a live request again.
C1_SingleActiveRequest == Cardinality({c \in CallIds : Active(c)}) <= 1

\* the deltas of the well-formed frames among the payloads fs, concatenated
RECURSIVE DeltasOf(_)
DeltasOf(fs) ==
  IF fs = <<>> THEN <<>>
  ELSE (IF IsFrameJson(Head(fs)) THEN DeltaContent(Head(fs)) ELSE <<>>)
       \o DeltasOf(Tail(fs))

\* C2: once `data: [DONE]` has been parsed, no delta of a frame that arrives
\* after it is appended: the text is the text of the frames before the sentinel.
C2_DoneStopsAccumulation ==
  \A c \in CallIds :
    LET d == IndexOf(calls[c].frames, DoneMark) IN
    (calls[c].outcome \in {"pending", "completed"} /\ d # 0)
      => calls[c].result = DeltasOf(SubSeq(calls[c].frames, 1, d - 1))

\* the whole body b handed to the read loop as a single chunk, then the flush
OneChunk(b) == Flush(Feed(StreamStart("enhancing", <<>>), b))

\* C3: however the body is cut into chunks, a completed call has consumed the
\* same frames in the same order, emitted the same progress values and built
\* the same final text as when the whole body arrives as one chunk.
C3_ChunkIndependence ==
  \A c \in CallIds :
    calls[c].outcome = "completed" =>
      /\ calls[c].result = OneChunk(body).result
      /\ calls[c].frames = OneChunk(body).frames
      /\ calls[c].progress = OneChunk(body).progress
      /\ enh.enhancedPrompt = OneChunk(body).enhancedPrompt

\* a completed call whose body was cut inside a frame's JSON object
C3_Witness ==
  \E c \in CallIds :
    /\ calls[c].outcome = "completed"
    /\ calls[c].midFrame
    /\ calls[c].result = <<"Hi", " there">>

\* the lines `data: {json}` with a well-formed JSON object
FrameLines ==
  {l \in LineTemplates : StartsWith(l, DataPrefix)
                         /\ IsFrameJson(Trim(Slice(l, Len(DataPrefix))))}

\* sequences of well-formed frames that leave room for the sentinel line
FrameSeqs == UNION {[1..n -> FrameLines] : n \in 0..(MaxLines - 1)}

\* well-formed frames followed by `data: [DONE]`, every line terminated
FramedBody(fs) == JoinLines(fs \o <<DataPrefix \o DoneMark>>, TRUE)

\* the text between the JSON object's opening and closing of a frame line
TextOfLine(l) ==
  LET j == Trim(Slice(l, Len(DataPrefix))) IN SubSeq(j, 2, Len(j) - 1)

\* the content values of the frames fs, concatenated in order
RECURSIVE TextOf(_)
TextOf(fs) == IF fs = <<>> THEN <<>> ELSE TextOfLine(Head(fs)) \o TextOf(Tail(fs))

\* C4: when the body of a successful response is well-formed frames followed
\* by `data: [DONE]`, the call ends Completed, its result and the final
\* enhancedPrompt are the frames' non-empty content values concatenated in
\* arrival order, and error is null.
C4_FramesConcatenated ==
  [][\A c \in CallIds : \A fs \in FrameSeqs :
       (calls[c].pc = "read" /\ calls'[c].pc = "done" /\ ~Aborted(c)
          /\ body = FramedBody(fs))
         => /\ calls'[c].outcome = "completed"
            /\ calls'[c].ret = "result"
            /\ calls'[c].result = TextOf(fs)
            /\ enh'.enhancedPrompt = TextOf(fs)
            /\ enh'.error = None
            /\ ~enh'.isEnhancing]_vars

\* "Hi" then " there" then the sentinel gives "Hi there"
C4_Witness ==
  \E c \in CallIds :
    /\ body = FramedBody(<<DataPrefix \o <<"{", "Hi", "}">>,
                           DataPrefix \o <<"{", " there", "}", CR>>>>)
    /\ calls[c].outcome = "completed"
    /\ calls[c].result = <<"Hi", " there">>
    /\ enh.enhancedPrompt = <<"Hi", " there">>

RetryFinished == rt.pc \in {"returned", "threw"}

\* every attempt so far was answered with a retryable status
AllRetryable ==
  \A i \in 1..Len(rt.log) :
    rt.log[i] # Throws /\ ~Ok(rt.log[i]) /\ rt.log[i] \in rt.opts.retryableStatuses

\* every attempt so far threw a network error
AllThrew == \A i \in 1..Len(rt.log) : rt.log[i] = Throws

\* the request count and the outcome of fetchWithRetry, for C5
C5_RetryBound ==
  /\ rt.requests <= rt.opts.maxRetries + 1
  /\ (RetryFinished /\ AllRetryable)
       => /\ rt.pc = "returned"
          /\ rt.result = rt.log[Len(rt.log)]
          /\ rt.requests = rt.opts.maxRetries + 1
          /\ Len(rt.sleeps) = rt.opts.maxRetries
  /\ (RetryFinished /\ AllThrew)
       => /\ rt.pc = "threw"
          /\ rt.result = Throws
          /\ rt.requests = rt.opts.maxRetries + 1

\* C5: fetchWithRetry issues exactly maxRetries + 1 requests and sleeps
\* maxRetries times when every attempt is answered with a retryable status, then
\* returns the last response; it issues maxRetries + 1 requests and rethrows
\* when every attempt throws; it never issues more, and it always terminates.
C5_RetryExhaustion == []C5_RetryBound /\ <>RetryFinished

\* four requests and three sleeps against a gateway that always answers 503
C5_Witness ==
  /\ rt.pc = "returned"
  /\ rt.opts.maxRetries = DefaultMaxRetries
  /\ rt.log = <<503, 503, 503, 503>>
  /\ rt.requests = 4
  /\ Len(rt.sleeps) = 3

\* the message contains the phrase "too long" or "content length", spelled so
MentionsLength(m) == Includes(m, <<"too", "long">>) \/ Includes(m, <<"content", "length">>)

\* the message contains network or fetch in any letter case
MentionsNetwork(m) == \E i \in 1..Len(m) : LowerWord(m[i]) \in {"network", "fetch"}

\* the message mentions length or too long in any wording or letter case
MentionsLengthLoosely(m) ==
  \E i \in 1..Len(m) :
    \/ LowerWord(m[i]) = "length"
    \/ i < Len(m) /\ LowerWord(m[i]) = "too" /\ LowerWord(m[i + 1]) = "long"

\* C6 as stated: status 400 gives content-too-long whenever the message
\* mentions length or too long.
C6_AnyMentionOfLength ==
  (clsOut # "none" /\ clsIn.name # "AbortError" /\ clsIn.status = 400
     /\ MentionsLengthLoosely(clsIn.message))
    => clsOut = "content-too-long"

\* C6: classifyEnhanceError follows the decision table in priority order:
\* cancellation name, 429, 402, 400 (content-too-long exactly when the message
\* contains "too long" or "content length" in that spelling, else
\* invalid-content), 408/504, >= 500, message containing network/fetch in any
\* letter case, generic; the result is one of the nine kinds.
C6_ClassificationTable ==
  clsOut # "none" =>
    /\ clsOut \in EnhanceErrorType
    /\ clsIn.name = "AbortError" => clsOut = "abort"
    /\ clsIn.name # "AbortError" =>
         /\ clsIn.status = 429 => clsOut = "rate-limit"
         /\ clsIn.status = 402 => clsOut = "payment"
         /\ (clsIn.status = 400 /\ MentionsLength(clsIn.message))
              => clsOut = "content-too-long"
         /\ (clsIn.status = 400 /\ ~MentionsLength(clsIn.message))
              => clsOut = "invalid-content"
         /\ clsIn.status \in {408, 504} => clsOut = "timeout"
         /\ (clsIn.status >= 500 /\ clsIn.status # 504) => clsOut = "server-error"
         /\ (clsIn.status \notin {429, 402, 400, 408} /\ clsIn.status < 500)
              => clsOut = IF MentionsNetwork(clsIn.message) THEN "network" ELSE "generic"

\* status 400 with "Too long" classifies as invalid-content
C6_Witness ==
  /\ clsIn.status = 400
  /\ clsIn.message = <<"Too", "long">>
  /\ clsOut = "invalid-content"

\* C7: a call the caller cancelled before any response byte arrived issues no
\* further request and ends Aborted.
C7_CancelledNeverRetried ==
  [][\A c \in CallIds :
       c \in cancelled =>
         /\ calls'[c].requests = calls[c].requests
         /\ (calls'[c].pc = "done" => calls'[c].outcome = "aborted")]_vars

\* C8: with the default options a 429, 402 or 400 answer is surfaced after
\* exactly one request and no backoff sleep.
C8_ClientErrorsNotRetried ==
  (rt.opts = DEFAULT_OPTIONS /\ rt.log # <<>> /\ rt.log[1] \in {429, 402, 400})
    => (rt.requests = 1 /\ rt.sleeps = <<>>)

\* the step in which call c leaves the read of a failure answer's body
HttpFailureStep(c) == calls[c].pc = "errbody" /\ ~Aborted(c) /\ calls'[c].pc # "errbody"

\* what that step must leave behind when the message shown is `message`
HttpFailureShows(c, message) ==
  /\ calls'[c].pc = "done"
  /\ calls'[c].ret = "null"
  /\ calls'[c].outcome = "failed-http"
  /\ Len(calls') = Len(calls)
  /\ enh'.error = Some(message)
  /\ enh'.errorType = classifyEnhanceError(ApiError(calls[c].status, message))
  /\ ~enh'.isEnhancing

C10_NetworkFailureSurfaced ==
  \A c \in CallIds :
    calls[c].outcome = "failed-network"
      => (enh.error # None /\ enh.errorType = "network")

\* C11: a network failure of enhancePrompt is retried automatically before it
\* is surfaced: a call never ends on a rejected fetch without a retry having
\* been counted in retryCount.
C11_NetworkFailureRetried ==
  \A c \in CallIds :
    calls[c].outcome = "failed-network" => enh.retryCount >= 1

\* C12: regenerate() on a session that holds no previous payload starts no
\* call and issues no request, and changes neither isEnhancing nor the text
\* nor the error.
C12_RegenerateWithoutHistory ==
  [][\A newMode \in RegenNewModes :
       (NoPreviousPayload(enh) /\ Regenerate(newMode))
         => /\ calls' = calls
            /\ enh'.isEnhancing = enh.isEnhancing
            /\ enh'.enhancedPrompt = enh.enhancedPrompt
            /\ enh'.error = enh.error]_vars

\* the call that started last
LastCall == calls[Len(calls)]

\* C13: after a call with payload (content, mode, imageData) has finished,
\* regenerate(newMode) starts exactly one new request that carries the same
\* content and images, and the same mode unless a new mode is passed.
C13_RegenerateSamePayload ==
  [][\A newMode \in RegenNewModes :
       (calls # <<>> /\ LastCall.pc = "done" /\ ~NoPreviousPayload(enh)
          /\ view = Closure(enh) /\ Regenerate(newMode))
         => /\ Len(calls') = Len(calls) + 1
            /\ calls'[Len(calls')].pc = "fetch"
            /\ calls'[Len(calls')].content = LastCall.content
            /\ calls'[Len(calls')].imageData = LastCall.imageData
            /\ calls'[Len(calls')].mode =
                 IF newMode # None THEN newMode[1] ELSE LastCall.mode]_vars

IsPrefix(a, b) == Len(a) <= Len(b) /\ SubSeq(b, 1, Len(a)) = a

ProperPrefix(a, b) == IsPrefix(a, b) /\ Len(a) < Len(b)

\* an attempt that has not been answered yet holds no text and no buffer
AttemptStartsEmpty ==
  \A c \in CallIds :
    calls[c].pc \in {"fetch", "sleep", "errbody"}
      => (calls[c].result = <<>> /\ calls[c].buffer = <<>>)

\* what one step of the read loop of call c hands to onStreamChunk
ProgressStep(c) ==
  LET old == calls[c].progress
      new == calls'[c].progress
      text == calls'[c].result
  IN /\ IsPrefix(old, new)
     /\ \A i \in (Len(old) + 1)..Len(new) :
          ProperPrefix(IF i = Len(old) + 1 THEN calls[c].result ELSE new[i - 1], new[i])
     /\ calls'[c].pc = "read" =>
          /\ IsPrefix(calls[c].result, text)
          /\ IsPrefix(text, OneChunk(body).result)
          /\ Len(new) > Len(old) => new[Len(new)] = text
     /\ calls'[c].outcome = "completed" =>
          /\ text = OneChunk(body).result
          /\ Len(new) > Len(old) => new[Len(new)] = text

\* C14: within one stream attempt every progress value is the full text
\* accumulated so far and has the previous value as a proper prefix, in the
\* order the bytes were consumed; a retried attempt starts again from the
\* empty text, so the values of an attempt and the final result hold only
\* text of that attempt's own stream.
C14_ProgressCumulative ==
  /\ []AttemptStartsEmpty
  /\ [][\A c \in CallIds : calls[c].pc = "read" => ProgressStep(c)]_vars

\* a stream that failed after "Hi", was retried and delivered "Hi", "Hi there"
C14_Witness ==
  \E c \in CallIds :
    /\ calls[c].outcome = "completed"
    /\ calls[c].attempt = 1
    /\ calls[c].progress = <<(<<"Hi">>), (<<"Hi">>), (<<"Hi", " there">>)>>
    /\ calls[c].result = <<"Hi", " there">>

IsNoOpLine(l) ==
  LET line == StripCR(l) IN
  \/ \A i \in 1..Len(line) : IsSpace(line[i])
  \/ line[1] = ":"
  \/ Len(line) < Len(DataPrefix)
  \/ SubSeq(line, 1, Len(DataPrefix)) # DataPrefix

\* the body b with every no-op line taken out, terminator included
WithoutNoOps(b) ==
  LET ls == Split(b)
      kept == SelectSeq(SubSeq(ls, 1, Len(ls) - 1), LAMBDA l : ~IsNoOpLine(l))
      last == ls[Len(ls)]
  IN JoinLines(kept, TRUE) \o (IF IsNoOpLine(last) THEN <<>> ELSE last)

\* C16: blank lines, `:` comment lines and lines without the prefix `data: `
\* are no-ops in the main loop and in the flush: a completed call has the
\* text, the progress values, the consumed frames and the stage it would have
\* had if those lines had not been in the body.
C16_NoOpLines ==
  \A c \in CallIds :
    calls[c].outcome = "completed" =>
      LET w == OneChunk(WithoutNoOps(body)) IN
      /\ calls[c].result = w.result
      /\ calls[c].progress = w.progress
      /\ calls[c].frames = w.frames
      /\ enh.enhancedPrompt = w.enhancedPrompt
      /\ enh.loadingStage = w.stage

\* a blank line and a comment line before the sentinel
C16_Witness ==
  \E c \in CallIds :
    /\ body = JoinLines(<< <<>>, <<":", "Hi">>, DataPrefix \o DoneMark >>, TRUE)
    /\ calls[c].outcome = "completed"
    /\ calls[c].result = <<>>
    /\ enh.loadingStage = "finalizing"


\* C17: for every client and every 60-second interval, at most 60 requests of
\* that client are allowed within the interval
C17_SlidingWindow == gate.watch.count <= RATE_LIMIT_PER_MINUTE

\* the request body carries a non-blank content or at least one image
CarriesPayload(b) ==
  \/ b.content.type = "string" /\ ~b.content.blank
  \/ b.imageData.type = "image"
  \/ b.imageData.type = "array" /\ Len(b.imageData.items) >= 1

\* every image of the body is a data:image/ URL of estimated size <= MAX_IMAGE_SIZE
ImagesWellFormed(b) ==
  \A i \in 1..Len(ImagesOf(b.imageData)) :
    LET img == ImagesOf(b.imageData)[i]
    IN  /\ img.type = "image"
        /\ img.dataImage
        /\ Base64Data(img) <= MaxBase64Length

\* what C18 requires of a body handed to handleEnhanceRequest
ValidatedPayload(b) ==
  /\ b.type = "object"
  /\ b.content.type \in {"undefined", "string"}
  /\ b.content.type = "string" => b.content.length <= MAX_CONTENT_LENGTH
  /\ b.mode.type # "undefined" => ValidMode(b.mode)
  /\ b.imageData.type # "undefined" =>
       Len(ImagesOf(b.imageData)) <= MAX_IMAGES /\ ImagesWellFormed(b)
  /\ CarriesPayload(b)

\* C18: handleEnhanceRequest is invoked only for a request the rate limiter
\* allowed and whose body is a validated payload: content (when present) a string
\* of at most 10,000 characters, mode (when present) one of the four modes, at
\* most 5 images, each a data:image/ URL of estimated size at most 5 MB, and a
\* non-blank content or at least one image
C18_OnlyValidatedPayloads ==
  gate.response.kind = "handled" =>
    /\ gate.answer.allowed
    /\ ValidatedPayload(gate.response.payload[1])

\* call c takes a step while a call started after it exists
SupersededStep(c) ==
  /\ c < Len(calls)
  /\ Len(calls') = Len(calls)
  /\ calls'[c] # calls[c]

\* C19: once a newer call has started and reset the text, no step of an earlier
\* call changes the session's text, stage or error kind
C19_SingleWriter ==
  [][\A c \in CallIds :
       SupersededStep(c) =>
         /\ enh'.enhancedPrompt = enh.enhancedPrompt
         /\ enh'.loadingStage = enh.loadingStage
         /\ enh'.errorType = enh.errorType]_vars

\* call c, cancelled by abort() during its backoff sleep, wakes up
WakesCancelled(c) ==
  /\ c \in cancelled
  /\ calls[c].pc = "sleep"
  /\ calls'[c].pc # "sleep"

\* C20: a call cancelled during its backoff sleep issues no request on waking:
\* the fetch of its next attempt is handed an aborted signal, so it sends
\* nothing and rejects with AbortError
C20_CancelDuringBackoff ==
  [][\A c \in CallIds :
       WakesCancelled(c) =>
         /\ calls'[c].signal \in aborted
         /\ calls'[c].requests = calls[c].requests]_vars

\* the read loop of the session's call has parsed `data: [DONE]`
DoneParsed == calls # <<>> /\ IndexOf(calls[1].frames, DoneMark) # 0

\* the session's call has returned its result
Finalized == calls # <<>> /\ calls[1].outcome = "completed"

\* C21: once `data: [DONE]` has been parsed the call eventually reaches
\* Completed, also when the server never closes the stream after the sentinel
C21_DoneFinalizes == DoneParsed ~> Finalized

\* delay is at most the cap and, when base * 2^k is below the cap, within 10%
\* of base * 2^k
WithinBackoffBound(delay, base, k, cap) ==
  /\ delay <= cap
  /\ base * Pow2(k) < cap =>
       /\ 10 * delay >= 9 * base * Pow2(k)
       /\ 10 * delay <= 11 * base * Pow2(k)

\* C22: the sleep of execute before the attempt after attempt k is at most
\* maxDelay (10000 ms) and, when base * 2^k is below the cap, within 10% of
\* base * 2^k, for every configured retry count
C22_BackoffBound ==
  \A c \in CallIds :
    calls[c].pc = "sleep" =>
      WithinBackoffBound(calls[c].delay, apiOpts.retryDelay, calls[c].attempt,
                         DefaultMaxDelay)

\* the payload of a `data: ` line
PayloadOf(l) == Trim(Slice(StripCR(l), Len(DataPrefix)))

\* a `data: ` line whose payload is neither the sentinel nor parseable JSON
IsMalformedLine(l) ==
  /\ StartsWith(StripCR(l), DataPrefix)
  /\ PayloadOf(l) # DoneMark
  /\ ~IsFrameJson(PayloadOf(l))

HasMalformedLine(b) == \E i \in 1..Len(Split(b)) : IsMalformedLine(Split(b)[i])

\* the deltas of the well-formed frames among the lines ls that come before
\* the first sentinel line, in arrival order
RECURSIVE DeltasBeforeDone(_)
DeltasBeforeDone(ls) ==
  IF ls = <<>> THEN <<>>
  ELSE IF ~StartsWith(StripCR(Head(ls)), DataPrefix) THEN DeltasBeforeDone(Tail(ls))
  ELSE IF PayloadOf(Head(ls)) = DoneMark THEN <<>>
  ELSE IF IsFrameJson(PayloadOf(Head(ls)))
    THEN DeltaContent(PayloadOf(Head(ls))) \o DeltasBeforeDone(Tail(ls))
  ELSE DeltasBeforeDone(Tail(ls))

\* C23: a `data:` line whose payload is not JSON never makes the call fail: no
\* error is recorded while the stream is read, the call ends Completed, and the
\* final text starts with the deltas of all well-formed frames before the
\* sentinel, in arrival order
C23_MalformedSwallowed ==
  [][\A c \in CallIds :
       (calls[c].pc = "read" /\ HasMalformedLine(body))
         => /\ enh.error = None /\ enh'.error = None
            /\ enh.errorType = "null" /\ enh'.errorType = "null"
            /\ calls'[c].pc = "done"
                 => /\ calls'[c].outcome = "completed"
                    /\ calls'[c].ret = "result"
                    /\ IsPrefix(DeltasBeforeDone(Split(body)), calls'[c].result)
                    /\ IsPrefix(DeltasBeforeDone(Split(body)), enh'.enhancedPrompt)]_vars

\* "Hi", a line that is not JSON, then " there": the call completes with "Hi there"
C23_Witness ==
  \E c \in CallIds :
    /\ body = JoinLines(<<DataPrefix \o <<"{", "Hi", "}">>,
                          DataPrefix \o <<"{", "Hi">>,
                          DataPrefix \o <<"{", " there", "}", CR>>>>, TRUE)
    /\ calls[c].outcome = "completed"
    /\ calls[c].result = <<"Hi", " there">>
    /\ enh.error = None

IsSuffix(a, b) == Len(a) <= Len(b) /\ SubSeq(b, Len(b) - Len(a) + 1, Len(b)) = a

\* the part of s after its last newline: the partial line a chunk ends with
PartialLine(s) == Split(s)[Len(Split(s))]

\* the chunk call c reads in a step that leaves it reading
ChunkRead(c) == SubSeq(calls[c].wire, 1, Len(calls[c].wire) - Len(calls'[c].wire))

\* the body ends with a well-formed frame that has a delta and no newline
EndsUnterminated(b) ==
  /\ StartsWith(StripCR(PartialLine(b)), DataPrefix)
  /\ IsFrameJson(PayloadOf(PartialLine(b)))
  /\ DeltaContent(PayloadOf(PartialLine(b))) # <<>>

\* C24: the part of a chunk after its last newline stays at the end of the
\* buffer, in front of the next chunk's data; and when the stream ends with a
\* `data:` frame that has no terminating newline, the call completes with a
\* final text that ends with that frame's delta
C24_PartialLineKept ==
  [][\A c \in CallIds :
       /\ (calls[c].pc = "read" /\ calls'[c].pc = "read" /\ calls'[c].wire # calls[c].wire)
            => IsSuffix(PartialLine(calls[c].buffer \o ChunkRead(c)), calls'[c].buffer)
       /\ (calls[c].pc = "read" /\ calls'[c].pc = "done" /\ EndsUnterminated(body))
            => /\ calls'[c].outcome = "completed"
               /\ IsSuffix(DeltaContent(PayloadOf(PartialLine(body))), calls'[c].result)]_vars

\* two frames, the second without a newline and cut in two by a chunk boundary
C24_Witness ==
  \E c \in CallIds :
    /\ body = JoinLines(<<DataPrefix \o <<"{", " there", "}", CR>>,
                          DataPrefix \o <<"{", "Hi", "}">>>>, FALSE)
    /\ calls[c].outcome = "completed"
    /\ calls[c].midFrame
    /\ calls[c].result = <<" there", "Hi">>

\* C25: while a call reads its stream the stage is "enhancing" only after more
\* than 10 deltas have been received, and it is "finalizing" from the sentinel on
C25_StageHeuristic ==
  \A c \in CallIds :
    calls[c].pc = "read" =>
      /\ enh.loadingStage = "enhancing" => calls[c].tokenCount > StageThreshold
      /\ IndexOf(calls[c].frames, DoneMark) # 0 => enh.loadingStage = "finalizing"

\* C26: isEnhancing is true whenever a call of the session is connecting or
\* streaming on a signal that has not been aborted
C26_EnhancingWhileInFlight ==
  (\E c \in CallIds : Active(c)) => enh.isEnhancing

\* the 300 ms timer of an earlier abort() fires while a call is in flight
ResetWhileInFlight ==
  /\ timers' = timers - 1
  /\ \E c \in CallIds : Active(c)

\* C27: the delayed reset of an abort() never clears isLoading, data, error or
\* the retry count while a call of execute is in flight
C27_ResetSparesNewCall ==
  [][ResetWhileInFlight =>
       /\ api'.isLoading = api.isLoading
       /\ api'.data = api.data
       /\ api'.error = api.error
       /\ api'.retryAttempt = api.retryAttempt]_vars


\* the most recently started generation is in flight: it has not settled and
\* has not been stopped
LatestInFlight ==
  /\ calls # <<>>
  /\ calls[Len(calls)].pc \in {"fetch", "read"}
  /\ ~Aborted(Len(calls))

\* C28: isGenerating is true exactly while the most recently started
\* generation is in flight; every earlier generation that has not settled has
\* been aborted; and the controller held is the one of the latest generation
\* while it is in flight and none otherwise, so the settling of a superseded
\* or stopped generation clears neither.
C28_GeneratingWhileLatestInFlight ==
  /\ gen.isGenerating <=> LatestInFlight
  /\ abortControllerRef = (IF LatestInFlight THEN Len(calls) ELSE 0)
  /\ \A c \in CallIds : c < Len(calls) /\ calls[c].pc # "done" => Aborted(c)

\* a superseded generation has settled with an AbortError while the newer one
\* is reading its stream and is still shown as generating
C28_Witness ==
  /\ Len(calls) = 2
  /\ calls[1].pc = "done" /\ calls[1].outcome = "aborted"
  /\ calls[2].pc = "read" /\ calls[2].accumulatedCode # <<>>
  /\ gen.isGenerating
  /\ abortControllerRef = 2

\* the stored entry of a client is within the limit
EntryInRange(entry) ==
  entry # NoEntry => entry.count >= 1 /\ entry.count <= RATE_LIMIT_PER_MINUTE

\* the last answer of checkRateLimit agrees with the entry of its client
AnswerInRange(g) ==
  g.answer.ip \in Clients /\ g.answer.allowed =>
    /\ g.answer.remaining = RATE_LIMIT_PER_MINUTE - g.rateLimitMap[g.answer.ip].count
    /\ g.answer.remaining >= 0
    /\ g.answer.resetIn >= 0 /\ g.answer.resetIn <= WINDOW_MS

\* what one call of checkRateLimit, answered in g2 from g1, did to the map
CallKeepsEntries(g1, g2) ==
  LET ip == g2.answer.ip
      old == g1.rateLimitMap
      new == g2.rateLimitMap
  IN  /\ \A other \in Clients \ {ip} : new[other] = old[other]
      /\ ~g2.answer.allowed => new[ip] = old[ip]
      /\ old[ip] # NoEntry /\ old[ip].resetAt < g1.now =>
           new[ip] = [count |-> 1, resetAt |-> g1.now + WINDOW_MS]

\* C29: every stored count is between 1 and RATE_LIMIT_PER_MINUTE; an allowed
\* answer has remaining = RATE_LIMIT_PER_MINUTE - count >= 0 and a resetIn
\* between 0 and WINDOW_MS; a denied call leaves the entry unchanged; an
\* expired entry is replaced by a fresh window with count 1; and a call for
\* one client never changes the entry of another client.
C29_RateLimitEntries ==
  [][ /\ \A ip \in Clients : EntryInRange(gate'.rateLimitMap[ip])
      /\ AnswerInRange(gate')
      /\ gate'.now = gate.now => CallKeepsEntries(gate, gate') ]_vars

\* a client that was denied at the limit holds an entry whose window has since
\* expired, while the other client holds an entry of its own
C29_Witness ==
  /\ gate.answer.ip = "10.0.0.1" /\ ~gate.answer.allowed
  /\ gate.rateLimitMap["10.0.0.1"].count = RATE_LIMIT_PER_MINUTE
  /\ gate.rateLimitMap["10.0.0.1"].resetAt < gate.now
  /\ gate.rateLimitMap["unknown"] # NoEntry
  /\ gate.rateLimitMap["unknown"].resetAt > gate.now

\* fetchWithRetry returned a response with the given status to the handler
FinalStatus(status) == rt.pc = "returned" /\ rt.result = status

\* fetchWithRetry returned an OK response to the handler
FinalOk == rt.pc = "returned" /\ Ok(rt.result)

\* C30: handleEnhanceRequest always answers, and with one of a fixed set of
\* outcomes: a 200 event-stream carrying the gateway body exactly when the
\* final gateway response is OK; otherwise a JSON {error} body with status 500
\* for a missing API key, 400 when image processing reported errors, 429 when
\* the final gateway status is 429, 402 when it is 402, and 500 for any other
\* gateway status or a thrown network error after the retries.
C30_HandlerOutcomes ==
  gate.handler.pc = "answered" =>
    /\ gate.response.kind \in {"event-stream", "json-error"}
    /\ gate.response.kind = "event-stream" <=>
         gate.handler.key /\ gate.handler.imageErrors = <<>> /\ FinalOk
    /\ gate.response.kind = "event-stream" =>
         /\ gate.response.status = 200
         /\ gate.response.payload = Some(GatewayBody(rt.result))
    /\ gate.response.kind = "json-error" =>
         gate.response.status =
           (IF ~gate.handler.key THEN 500
            ELSE IF gate.handler.imageErrors # <<>> THEN 400
            ELSE IF FinalStatus(429) THEN 429
            ELSE IF FinalStatus(402) THEN 402
            ELSE 500)

====
